---------------------------- MODULE Spec2Model ----------------------------
(***************************************************************************)
(* A model of the route-processing core of roam: the polyline codec, the   *)
(* nearest-vertex scan and the cumulative-distance table of                *)
(* src/src/roam/utils.py, and the route sampler and the forecast matcher   *)
(* of src/src/roam/cli.py.                                                 *)
(*                                                                         *)
(* Representation.                                                         *)
(*   - A Python string is a sequence of character codes, so ord and chr    *)
(*     are the identity on codes.                                          *)
(*   - A coordinate in degrees is an integer count of sub-units, SubUnits  *)
(*     of which make 1e-5 degree.  "x * 100000" followed by round() is     *)
(*     round_e5, and "n / 100000.0" is to_degrees; a coordinate is         *)
(*     quantized to 1e-5 degree iff it is a multiple of SubUnits.          *)
(*   - Python integers are unbounded, so no width is modelled.  On the     *)
(*     values the code handles, x & 0x1F is x % 32 (also for negative x),  *)
(*     x >> k is x \div 2^k (floor), x << k is x * 2^k, ~x is -x - 1, and  *)
(*     an OR of two values with no common bit is their sum.                *)
(*   - An exception leaving a function is recorded in the "error" field    *)
(*     of its result; "none" means the function returned.                  *)
(***************************************************************************)
EXTENDS Integers, Sequences, FiniteSets

VARIABLES
    pc,               \* the position of the client program
    points,           \* encode_polyline's argument
    text,             \* a polyline string: encode's result, decode's argument
    coordinates,      \* decode_polyline's outcome: [error, value]
    polyline_points,  \* the polyline handed to the path functions
    point,            \* the query point of get_nearest_point_on_polyline
    miles,            \* the values of haversine_distance on the points in use
    distances,        \* calculate_cumulative_distances' result
    nearest,          \* get_nearest_point_on_polyline's outcome
    route_obj,        \* the route handed to the weather sampler
    sampling,         \* the sampler's outcome: the samples and its counters
    forecast_data,    \* find_forecast_for_time's forecast
    target_time,      \* find_forecast_for_time's target instant
    match             \* find_forecast_for_time's outcome: [error, closest]

base_vars == <<pc, points, text, coordinates, polyline_points, point, miles,
          distances, nearest, route_obj, sampling, forecast_data,
          target_time, match>>

utils_vars == <<points, text, coordinates, polyline_points, point, miles,
                distances, nearest>>

weather_vars == <<route_obj, sampling, forecast_data, target_time, match>>

SamplerIdle ==
    /\ route_obj = <<>>
    /\ sampling = <<>>

MatcherIdle ==
    /\ forecast_data = <<>>
    /\ target_time = 0
    /\ match = <<>>

(* The variables of the operations modelled further down, one group per  *)
(* operation, with the value each has while another operation runs.      *)

VARIABLES
    chart_data,       \* generate_ascii_chart's series
    chart_height,     \* generate_ascii_chart's height
    chart             \* generate_ascii_chart's outcome

chart_vars == <<chart_data, chart_height, chart>>

ChartIdle ==
    /\ chart_data = <<>>
    /\ chart_height = 0
    /\ chart = <<>>

VARIABLES
    tasks,            \* the frame of each of two interleaved invocations
    task_args,        \* the caller's argument objects of each invocation
    module_state      \* the module-level objects (utils.py line 5, cli.py line 12)

task_vars == <<tasks, task_args, module_state>>

TasksIdle ==
    /\ tasks = <<>>
    /\ task_args = <<>>
    /\ module_state = <<>>

VARIABLES
    seconds_str,      \* format_duration's argument
    formatted         \* format_duration's result

format_vars == <<seconds_str, formatted>>

FormatIdle ==
    /\ seconds_str = <<>>
    /\ formatted = <<>>

VARIABLES
    settings,         \* whether config.py line 77 could load the settings
    garage_file,      \* the content of garage.json
    vehicle,          \* the arguments of `garage add`
    garage_loaded,    \* what load_garage returned to the last command, if called
    garage_saved,     \* what garage_add handed to save_garage, if called
    console_out       \* what the last command printed

garage_vars == <<settings, garage_file, vehicle, garage_loaded, garage_saved, console_out>>

GarageIdle ==
    /\ settings = FALSE
    /\ garage_file = <<>>
    /\ vehicle = <<>>
    /\ garage_loaded = <<>>
    /\ garage_saved = <<>>
    /\ console_out = <<>>

VARIABLES
    place,            \* the place being enriched
    enriched          \* the outcome of the enrichment of the place

enrich_vars == <<place, enriched>>

EnrichIdle ==
    /\ place = <<>>
    /\ enriched = <<>>

VARIABLES
    next_page_token,  \* search_along_route's token for the next page
    all_places,       \* the places search_along_route has gathered
    page_requests,    \* the requests search_along_route has sent, with their answers
    found             \* the list search_along_route returned

search_vars == <<next_page_token, all_places, page_requests, found>>

SearchIdle ==
    /\ next_page_token = "<None>"
    /\ all_places = <<>>
    /\ page_requests = <<>>
    /\ found = <<>>

tools_outside_chart ==
    <<task_vars,
      format_vars,
      garage_vars,
      enrich_vars,
      search_vars>>

outside_chart == <<utils_vars, weather_vars, tools_outside_chart>>

IdleOutsideChart ==
    /\ SamplerIdle
    /\ MatcherIdle
    /\ TasksIdle
    /\ FormatIdle
    /\ GarageIdle
    /\ EnrichIdle
    /\ SearchIdle

tools_outside_task ==
    <<chart_vars,
      format_vars,
      garage_vars,
      enrich_vars,
      search_vars>>

outside_task == <<utils_vars, weather_vars, tools_outside_task>>

IdleOutsideTasks ==
    /\ SamplerIdle
    /\ MatcherIdle
    /\ ChartIdle
    /\ FormatIdle
    /\ GarageIdle
    /\ EnrichIdle
    /\ SearchIdle

tools_outside_format ==
    <<chart_vars,
      task_vars,
      garage_vars,
      enrich_vars,
      search_vars>>

outside_format == <<utils_vars, weather_vars, tools_outside_format>>

IdleOutsideFormat ==
    /\ SamplerIdle
    /\ MatcherIdle
    /\ ChartIdle
    /\ TasksIdle
    /\ GarageIdle
    /\ EnrichIdle
    /\ SearchIdle

tools_outside_garage ==
    <<chart_vars,
      task_vars,
      format_vars,
      enrich_vars,
      search_vars>>

outside_garage == <<utils_vars, weather_vars, tools_outside_garage>>

IdleOutsideGarage ==
    /\ SamplerIdle
    /\ MatcherIdle
    /\ ChartIdle
    /\ TasksIdle
    /\ FormatIdle
    /\ EnrichIdle
    /\ SearchIdle

tools_outside_enrich ==
    <<chart_vars,
      task_vars,
      format_vars,
      garage_vars,
      search_vars>>

outside_enrich == <<utils_vars, weather_vars, tools_outside_enrich>>

IdleOutsideEnrich ==
    /\ SamplerIdle
    /\ MatcherIdle
    /\ ChartIdle
    /\ TasksIdle
    /\ FormatIdle
    /\ GarageIdle
    /\ SearchIdle

tools_outside_search ==
    <<chart_vars,
      task_vars,
      format_vars,
      garage_vars,
      enrich_vars>>

outside_search == <<utils_vars, weather_vars, tools_outside_search>>

IdleOutsideSearch ==
    /\ SamplerIdle
    /\ MatcherIdle
    /\ ChartIdle
    /\ TasksIdle
    /\ FormatIdle
    /\ GarageIdle
    /\ EnrichIdle

\* every variable of the groups above
tools_vars ==
    <<chart_vars,
      task_vars,
      format_vars,
      garage_vars,
      enrich_vars,
      search_vars>>

ToolsIdle ==
    /\ ChartIdle
    /\ TasksIdle
    /\ FormatIdle
    /\ GarageIdle
    /\ EnrichIdle
    /\ SearchIdle

vars == <<base_vars, tools_vars>>

---------------------------------------------------------------------------
(* Bounds of the model.                                                    *)

\* sub-units per 1e-5 degree (the resolution of a coordinate in degrees)
SubUnits == 10
\* longest point list handed to encode_polyline
MaxPoints == 2
\* longest arbitrary string handed to decode_polyline
MaxTextLen == 4
\* most vertices of a polyline handed to the path functions
MaxVertices == 3
\* largest distance, in miles, between two of the points in use
MaxMiles == 2
\* most legs of a route, and most steps of a route over all its legs
MaxLegs == 2
MaxSteps == 3
\* most entries of a forecast list
MaxEntries == 3
\* longest series handed to generate_ascii_chart, and its largest height
MaxSeries == 3
MaxHeight == 3
\* longest arbitrary string handed to format_duration
MaxDurationLen == 3
MaxRoute == 6
MaxPagePlaces == 2

---------------------------------------------------------------------------
(* Inputs.                                                                 *)

GeoPoint(lat, lng) == [latitude |-> lat, longitude |-> lng]

\* Coordinates (in sub-units): quantized ones, negative ones, ones whose
\* deltas need one, two and three 5-bit groups, and two that are not
\* quantized (a half and a bit more than a whole 1e-5 degree).
QuantizedPoints ==
    { GeoPoint(0, 0),
      GeoPoint(1 * SubUnits, -1 * SubUnits),
      GeoPoint(-17 * SubUnits, 16 * SubUnits),
      GeoPoint(600 * SubUnits, -600 * SubUnits) }

UnquantizedPoints ==
    { GeoPoint(SubUnits \div 2, -(SubUnits \div 2)),
      GeoPoint(2 * SubUnits + 1, -3 * SubUnits - 1) }

CodecPoints == QuantizedPoints \cup UnquantizedPoints

SeqsUpTo(S, n) == UNION { [1..k -> S] : k \in 0..n }

\* Character codes: '?' (0), '@' (1), '_' (continuation, 0), '`'
\* (continuation, 1), '~' (continuation, 31), and two codes outside the
\* polyline alphabet 63..126, one below and one above.
TextChars == {62, 63, 64, 95, 96, 126, 127}

\* "_p~iF~ps|U_ulLnnqC_mqNvxq`@", the reference string of the format
ReferenceText ==
    <<95, 112, 126, 105, 70, 126, 112, 115, 124, 85, 95, 117, 108, 76,
      110, 110, 113, 67, 95, 109, 113, 78, 118, 120, 113, 96, 64>>

Texts == SeqsUpTo(TextChars, MaxTextLen) \cup {ReferenceText}

---------------------------------------------------------------------------
(* decode_polyline, utils.py 18-46.                                        *)

\* n / 100000.0
to_degrees(n) == n * SubUnits

\* lines 36-39: undo the zigzag of one value
zigzag_decode(result) ==
    IF result % 2 = 1 THEN -(result \div 2) - 1 ELSE result \div 2

\* lines 28-34 reading past the end as a final zero group: a plausible slip
RECURSIVE read_value_lenient(_, _, _, _)
read_value_lenient(polyline_str, index, shift, result) ==
    IF index > Len(polyline_str)
    THEN [error |-> "none", index |-> index, result |-> result]
    ELSE LET byte == polyline_str[index] - 63
             joined == result + (byte % 32) * 2^shift
         IN  IF byte >= 32
             THEN read_value_lenient(polyline_str, index + 1, shift + 5, joined)
             ELSE [error |-> "none", index |-> index + 1, result |-> joined]

\* lines 28-34: the inner "while True" loop, one character per iteration.
\* index is 1-based here; polyline_str[index] past the end is an IndexError.
RECURSIVE read_value(_, _, _, _)
read_value(polyline_str, index, shift, result) ==
    IF index > Len(polyline_str)
    THEN [error |-> "IndexError", index |-> index, result |-> result]
    ELSE LET byte == polyline_str[index] - 63
             joined == result + (byte % 32) * 2^shift
         IN  IF byte >= 32
             THEN read_value(polyline_str, index + 1, shift + 5, joined)
             ELSE [error |-> "none", index |-> index + 1, result |-> joined]

\* lines 24-44 with "=" for "+=" on the accumulators: a plausible slip
RECURSIVE decode_loop_no_sum(_, _, _, _, _)
decode_loop_no_sum(polyline_str, index, lat, lng, coords) ==
    IF ~(index <= Len(polyline_str))
    THEN [error |-> "none", value |-> coords]
    ELSE LET first == read_value(polyline_str, index, 0, 0)
             second == read_value(polyline_str, first.index, 0, 0)
         IN  IF first.error # "none"
             THEN [error |-> first.error, value |-> <<>>]
             ELSE IF second.error # "none"
             THEN [error |-> second.error, value |-> <<>>]
             ELSE LET new_lat == zigzag_decode(first.result)
                      new_lng == zigzag_decode(second.result)
                  IN  decode_loop_no_sum(polyline_str, second.index, new_lat, new_lng,
                          Append(coords, GeoPoint(to_degrees(new_lat),
                                                  to_degrees(new_lng))))

\* lines 24-44: the outer loop; each iteration reads a latitude value and
\* a longitude value, adds them to the accumulators and appends a point.
RECURSIVE decode_loop(_, _, _, _, _)
decode_loop(polyline_str, index, lat, lng, coords) ==
    IF ~(index <= Len(polyline_str))
    THEN [error |-> "none", value |-> coords]
    ELSE LET first == read_value(polyline_str, index, 0, 0)
             second == read_value(polyline_str, first.index, 0, 0)
         IN  IF first.error # "none"
             THEN [error |-> first.error, value |-> <<>>]
             ELSE IF second.error # "none"
             THEN [error |-> second.error, value |-> <<>>]
             ELSE LET new_lat == lat + zigzag_decode(first.result)
                      new_lng == lng + zigzag_decode(second.result)
                  IN  decode_loop(polyline_str, second.index, new_lat, new_lng,
                          Append(coords, GeoPoint(to_degrees(new_lat),
                                                  to_degrees(new_lng))))

decode_polyline(polyline_str) == decode_loop(polyline_str, 1, 0, 0, <<>>)

---------------------------------------------------------------------------
(* encode_polyline, utils.py 49-73.                                        *)

\* int(round(x * 100000)): round() on a float rounds a half to even
round_e5(x) ==
    LET q == x \div SubUnits
        r == x % SubUnits
    IN  IF 2 * r < SubUnits THEN q
        ELSE IF 2 * r > SubUnits THEN q + 1
        ELSE IF q % 2 = 0 THEN q ELSE q + 1

\* lines 55-58: the chunk loop of encode_value
RECURSIVE encode_chunks(_, _)
encode_chunks(value, chunks) ==
    IF value >= 32
    THEN encode_chunks(value \div 32, Append(chunks, (32 + (value % 32)) + 63))
    ELSE Append(chunks, value + 63)

\* line 53 with the sign test dropped, so a negative value is only doubled
\* and its sign kept apart: a plausible slip
encode_value_sign_lost(value) ==
    encode_chunks(IF value < 0 THEN -(value * 2) ELSE value * 2, <<>>)

\* lines 52-59
encode_value(value) ==
    encode_chunks(IF value < 0 THEN -(value * 2) - 1 ELSE value * 2, <<>>)

\* lines 64-71 without line 71, so every point is encoded absolutely: a
\* plausible slip
RECURSIVE encode_loop_absolute(_, _, _, _, _)
encode_loop_absolute(pts, k, prev_lat, prev_lng, encoded) ==
    IF k > Len(pts)
    THEN encoded
    ELSE LET lat == round_e5(pts[k].latitude)
             lng == round_e5(pts[k].longitude)
         IN  encode_loop_absolute(pts, k + 1, prev_lat, prev_lng,
                 encoded \o encode_value(lat - prev_lat)
                         \o encode_value(lng - prev_lng))

\* lines 64-71: the loop over the points
RECURSIVE encode_loop(_, _, _, _, _)
encode_loop(pts, k, prev_lat, prev_lng, encoded) ==
    IF k > Len(pts)
    THEN encoded
    ELSE LET lat == round_e5(pts[k].latitude)
             lng == round_e5(pts[k].longitude)
         IN  encode_loop(pts, k + 1, lat, lng,
                 encoded \o encode_value(lat - prev_lat)
                         \o encode_value(lng - prev_lng))

encode_polyline(pts) == encode_loop(pts, 1, 0, 0, <<>>)

---------------------------------------------------------------------------
(* The codec's client: encode a point list and decode the result, or       *)
(* decode a given string.                                                  *)

NoCoordinates == [error |-> "none", value |-> <<>>]
NoPoint == GeoPoint(0, 0)
NoNearest == [error |-> "none", min_dist |-> 0, best_index |-> 0]

PathIdle ==
    /\ polyline_points = <<>>
    /\ point = NoPoint
    /\ miles = <<>>
    /\ distances = <<>>
    /\ nearest = NoNearest

InitCodec ==
    /\ \/ /\ pc = "encode"
          /\ points \in SeqsUpTo(CodecPoints, MaxPoints)
          /\ text = <<>>
       \/ /\ pc = "decode"
          /\ points = <<>>
          /\ text \in Texts
    /\ coordinates = NoCoordinates
    /\ PathIdle
    /\ SamplerIdle
    /\ MatcherIdle
    /\ ToolsIdle

Encode ==
    /\ pc = "encode"
    /\ text' = encode_polyline(points)
    /\ pc' = "encoded"
    /\ UNCHANGED <<points, coordinates, polyline_points, point, miles,
                   distances, nearest>>
    /\ UNCHANGED weather_vars
    /\ UNCHANGED tools_vars

DecodeEncoded ==
    /\ pc = "encoded"
    /\ coordinates' = decode_polyline(text)
    /\ pc' = "roundtrip"
    /\ UNCHANGED <<points, text, polyline_points, point, miles, distances,
                   nearest>>
    /\ UNCHANGED weather_vars
    /\ UNCHANGED tools_vars

Decode ==
    /\ pc = "decode"
    /\ coordinates' = decode_polyline(text)
    /\ pc' = "decoded"
    /\ UNCHANGED <<points, text, polyline_points, point, miles, distances,
                   nearest>>
    /\ UNCHANGED weather_vars
    /\ UNCHANGED tools_vars

NextCodec == Encode \/ DecodeEncoded \/ Decode

SpecCodec == InitCodec /\ [][NextCodec]_vars

---------------------------------------------------------------------------
(* haversine_distance, utils.py 76-91.                                     *)
(*                                                                         *)
(* The formula is floating-point trigonometry; the model keeps what the    *)
(* path functions rely on.  The distance of a point pair is a number of    *)
(* miles that is 0 for two identical points (dlat = dlon = 0 gives a = 0)  *)
(* and otherwise any value >= 0 (c = 2 * asin(sqrt(a)) >= 0, r = 3956),    *)
(* the same in both directions; two distinct points may be at distance 0   *)
(* (underflow) or at equal distances from a third.  miles holds the value  *)
(* for every pair of distinct points, drawn arbitrarily in the initial     *)
(* state.                                                                  *)

PathPoints ==
    { GeoPoint(0, 0),
      GeoPoint(1 * SubUnits, -1 * SubUnits),
      GeoPoint(-17 * SubUnits, 16 * SubUnits) }

PointPairs == { pair \in SUBSET PathPoints : Cardinality(pair) = 2 }

haversine_distance(lat1, lon1, lat2, lon2) ==
    IF lat1 = lat2 /\ lon1 = lon2
    THEN 0
    ELSE miles[{GeoPoint(lat1, lon1), GeoPoint(lat2, lon2)}]

\* float("inf"): greater than every distance
Infinity == MaxMiles + 1

---------------------------------------------------------------------------
(* get_nearest_point_on_polyline, utils.py 94-109.                         *)

\* lines 103-107 with "<=" for "<": a plausible slip
RECURSIVE nearest_scan_last_wins(_, _, _, _, _, _)
nearest_scan_last_wins(point_lat, point_lng, pts, i, min_dist, best_index) ==
    IF i >= Len(pts)
    THEN [error |-> "none", min_dist |-> min_dist, best_index |-> best_index]
    ELSE LET p == pts[i + 1]
             d == haversine_distance(point_lat, point_lng,
                                     p.latitude, p.longitude)
         IN  IF d <= min_dist
             THEN nearest_scan_last_wins(point_lat, point_lng, pts, i + 1, d, i)
             ELSE nearest_scan_last_wins(point_lat, point_lng, pts, i + 1,
                                         min_dist, best_index)

\* lines 103-109: the scan; i is enumerate's 0-based index, so the vertex
\* it names is pts[i + 1] here.  The function has no raise: it returns.
RECURSIVE nearest_scan(_, _, _, _, _, _)
nearest_scan(point_lat, point_lng, pts, i, min_dist, best_index) ==
    IF i >= Len(pts)
    THEN [error |-> "none", min_dist |-> min_dist, best_index |-> best_index]
    ELSE LET p == pts[i + 1]
             d == haversine_distance(point_lat, point_lng,
                                     p.latitude, p.longitude)
         IN  IF d < min_dist
             THEN nearest_scan(point_lat, point_lng, pts, i + 1, d, i)
             ELSE nearest_scan(point_lat, point_lng, pts, i + 1,
                               min_dist, best_index)

\* lines 99-100: min_dist = float("inf"), best_index = -1
get_nearest_point_on_polyline(point_lat, point_lng, pts) ==
    nearest_scan(point_lat, point_lng, pts, 0, Infinity, -1)

---------------------------------------------------------------------------
(* calculate_cumulative_distances, utils.py 112-126.                       *)

\* lines 118-125 appending d instead of total: a plausible slip
RECURSIVE cumulative_loop_no_total(_, _, _, _)
cumulative_loop_no_total(pts, i, total, dists) ==
    IF i >= Len(pts)
    THEN dists
    ELSE LET p1 == pts[i]
             p2 == pts[i + 1]
             d == haversine_distance(p1.latitude, p1.longitude,
                                     p2.latitude, p2.longitude)
         IN  cumulative_loop_no_total(pts, i + 1, total + d, Append(dists, d))

\* lines 118-125: i runs over range(1, len(polyline_points)); Python's
\* polyline_points[i - 1] and polyline_points[i] are pts[i] and pts[i + 1]
RECURSIVE cumulative_loop(_, _, _, _)
cumulative_loop(pts, i, total, dists) ==
    IF i >= Len(pts)
    THEN dists
    ELSE LET p1 == pts[i]
             p2 == pts[i + 1]
             d == haversine_distance(p1.latitude, p1.longitude,
                                     p2.latitude, p2.longitude)
         IN  cumulative_loop(pts, i + 1, total + d, Append(dists, total + d))

\* lines 116-117: distances = [0.0], total = 0.0
calculate_cumulative_distances(pts) == cumulative_loop(pts, 1, 0, <<0>>)

---------------------------------------------------------------------------
(* The path functions' client: build the table of a polyline, or project   *)
(* a point onto it.                                                        *)

CodecIdle ==
    /\ points = <<>>
    /\ text = <<>>
    /\ coordinates = NoCoordinates

InitPath ==
    /\ polyline_points \in SeqsUpTo(PathPoints, MaxVertices)
    /\ miles \in [PointPairs -> 0..MaxMiles]
    /\ \/ /\ pc = "tabulate"
          /\ point = NoPoint
       \/ /\ pc = "project"
          /\ point \in PathPoints
    /\ distances = <<>>
    /\ nearest = NoNearest
    /\ CodecIdle
    /\ SamplerIdle
    /\ MatcherIdle
    /\ ToolsIdle

CalculateCumulativeDistances ==
    /\ pc = "tabulate"
    /\ distances' = calculate_cumulative_distances(polyline_points)
    /\ pc' = "tabulated"
    /\ UNCHANGED <<points, text, coordinates, polyline_points, point, miles,
                   nearest>>
    /\ UNCHANGED weather_vars
    /\ UNCHANGED tools_vars

GetNearestPoint ==
    /\ pc = "project"
    /\ nearest' = get_nearest_point_on_polyline(point.latitude, point.longitude,
                                                polyline_points)
    /\ pc' = "projected"
    /\ UNCHANGED <<points, text, coordinates, polyline_points, point, miles,
                   distances>>
    /\ UNCHANGED weather_vars
    /\ UNCHANGED tools_vars

NextPath == CalculateCumulativeDistances \/ GetNearestPoint

SpecPath == InitPath /\ [][NextPath]_vars

---------------------------------------------------------------------------
(* The weather sampler of the route command, cli.py 360-366 and 390-445.   *)
(*                                                                         *)
(* A duration string is [is_int, n]: is_int says that the text, with its   *)
(* "s" removed, is an integer, and n is that integer ("N/A", the default   *)
(* of a route without a duration, is not).  A latLng dict is [given,       *)
(* latitude, longitude]; given is FALSE for the empty dict that .get       *)
(* yields for a missing location.  A sample is the tuple of line 399 with  *)
(* its label reduced to its kind.                                          *)

Seconds(n) == [is_int |-> TRUE, n |-> n]
NotSeconds == [is_int |-> FALSE, n |-> 0]

LatLng(lat, lng) == [given |-> TRUE, latitude |-> lat, longitude |-> lng]
NoLatLng == [given |-> FALSE, latitude |-> 0, longitude |-> 0]

Sample(offset, lat, lng, label) ==
    [offset |-> offset, latitude |-> lat, longitude |-> lng, label |-> label]

\* line 394
SAMPLE_INTERVAL == 3600

\* cli.py 72-76: int(duration_str.replace("s", "")), or 0 when that raises
get_seconds(duration_str) ==
    IF duration_str.is_int THEN duration_str.n ELSE 0

\* lines 360-366 and 402-410: start_lat is None without legs or without a
\* start location, and "if start_lat:" is also false for a latitude of 0
start_samples(legs) ==
    LET start_loc == IF legs # <<>> THEN legs[1].startLocation ELSE NoLatLng
        start_lat_is_true == start_loc.given /\ start_loc.latitude # 0
    IN  IF start_lat_is_true
        THEN << Sample(0, start_loc.latitude, start_loc.longitude, "Start") >>
        ELSE <<>>

\* lines 415-430 with ">=" for ">" at line 417: a plausible slip
walk_step_not_strict(w, step) ==
    LET step_dur == get_seconds(step.staticDuration)
        end_loc == step.endLocation
        sampled == /\ w.current_elapsed >= w.last_sample_time + SAMPLE_INTERVAL
                   /\ end_loc.given
    IN  [current_elapsed |-> w.current_elapsed + step_dur,
         last_sample_time |->
             IF sampled THEN w.current_elapsed ELSE w.last_sample_time,
         samples |->
             IF sampled
             THEN Append(w.samples,
                         Sample(w.current_elapsed, end_loc.latitude,
                                end_loc.longitude, "En Route"))
             ELSE w.samples]

\* lines 415-430 without line 428: a plausible slip
walk_step_keeps_last(w, step) ==
    LET step_dur == get_seconds(step.staticDuration)
        end_loc == step.endLocation
        sampled == /\ w.current_elapsed > w.last_sample_time + SAMPLE_INTERVAL
                   /\ end_loc.given
    IN  [current_elapsed |-> w.current_elapsed + step_dur,
         last_sample_time |-> w.last_sample_time,
         samples |->
             IF sampled
             THEN Append(w.samples,
                         Sample(w.current_elapsed, end_loc.latitude,
                                end_loc.longitude, "En Route"))
             ELSE w.samples]

\* lines 415-430: the body of the inner loop, on the walk's variables
\* w = [current_elapsed, last_sample_time, samples]
walk_step(w, step) ==
    LET step_dur == get_seconds(step.staticDuration)
        end_loc == step.endLocation
        sampled == /\ w.current_elapsed > w.last_sample_time + SAMPLE_INTERVAL
                   /\ end_loc.given
    IN  [current_elapsed |-> w.current_elapsed + step_dur,
         last_sample_time |->
             IF sampled THEN w.current_elapsed ELSE w.last_sample_time,
         samples |->
             IF sampled
             THEN Append(w.samples,
                         Sample(w.current_elapsed, end_loc.latitude,
                                end_loc.longitude, "En Route"))
             ELSE w.samples]

\* line 414: for step in leg.get("steps", [])
RECURSIVE walk_steps(_, _, _)
walk_steps(w, steps, k) ==
    IF k > Len(steps)
    THEN w
    ELSE walk_steps(walk_step(w, steps[k]), steps, k + 1)

\* line 413: for leg in legs
RECURSIVE walk_legs(_, _, _)
walk_legs(w, legs, k) ==
    IF k > Len(legs)
    THEN w
    ELSE walk_legs(walk_steps(w, legs[k].steps, 1), legs, k + 1)

\* line 437 with the whole interval for its half: a plausible slip
destination_due_full_interval(total_dur, last_sample_time) ==
    total_dur > last_sample_time + SAMPLE_INTERVAL

\* line 437 with "<" for ">": a plausible slip
destination_due_inverted(total_dur, last_sample_time) ==
    2 * total_dur < 2 * last_sample_time + SAMPLE_INTERVAL

\* line 437 always true: the guard dropped
destination_due_always(total_dur, last_sample_time) ==
    TRUE

\* line 437: total_dur > last_sample_time + (SAMPLE_INTERVAL / 2), the
\* division being exact (a float); doubled here to stay in the integers
destination_due(total_dur, last_sample_time) ==
    2 * total_dur > 2 * last_sample_time + SAMPLE_INTERVAL

\* lines 396-445: the samples of a route.  legs[-1] at line 434 raises
\* IndexError for a route without legs.
route_forecast_samples(route) ==
    LET legs == route.legs
        w == walk_legs([current_elapsed |-> 0,
                        last_sample_time |-> -SAMPLE_INTERVAL,
                        samples |-> start_samples(legs)], legs, 1)
        total_dur == get_seconds(route.duration)
    IN  IF legs = <<>>
        THEN [error |-> "IndexError", samples |-> w.samples,
              current_elapsed |-> w.current_elapsed,
              last_sample_time |-> w.last_sample_time]
        ELSE LET end_loc == legs[Len(legs)].endLocation
             IN  [error |-> "none",
                  samples |->
                      IF end_loc.given
                         /\ destination_due(total_dur, w.last_sample_time)
                      THEN Append(w.samples,
                                  Sample(total_dur, end_loc.latitude,
                                         end_loc.longitude, "Destination"))
                      ELSE w.samples,
                  current_elapsed |-> w.current_elapsed,
                  last_sample_time |-> w.last_sample_time]

---------------------------------------------------------------------------
(* The sampler's client: a route of at most MaxLegs legs and MaxSteps      *)
(* steps.  A route is made from the kinds of its steps in walking order,   *)
(* the positions where one leg ends and the next begins, the first leg's   *)
(* start location, the last leg's end location and the route's duration.   *)
(* The k-th step's end location, when it has one, is a point of its own,   *)
(* so that a sample tells which step it was taken at.                      *)

StepKinds ==
    { [staticDuration |-> Seconds(1), has_end |-> TRUE],
      [staticDuration |-> Seconds(3601), has_end |-> TRUE],
      [staticDuration |-> Seconds(3601), has_end |-> FALSE],
      [staticDuration |-> NotSeconds, has_end |-> TRUE] }

StartLocations ==
    { NoLatLng, LatLng(0, 7 * SubUnits), LatLng(5 * SubUnits, 7 * SubUnits) }

EndLocations == { NoLatLng, LatLng(9 * SubUnits, 0) }

RouteDurations == { NotSeconds, Seconds(1801), Seconds(5401), Seconds(5402) }

Waypoint == LatLng(8 * SubUnits, 8 * SubUnits)

StepAt(kinds, k) ==
    [staticDuration |-> kinds[k].staticDuration,
     endLocation |-> IF kinds[k].has_end
                     THEN LatLng(k * SubUnits, -k * SubUnits)
                     ELSE NoLatLng]

\* cuts[i] is the number of steps in the legs before leg i + 1
MakeRoute(kinds, nlegs, cuts, start_loc, end_loc, duration) ==
    LET first(i) == IF i = 1 THEN 1 ELSE cuts[i - 1] + 1
        last(i) == IF i = nlegs THEN Len(kinds) ELSE cuts[i]
    IN  [duration |-> duration,
         legs |-> [i \in 1..nlegs |->
             [startLocation |-> IF i = 1 THEN start_loc ELSE Waypoint,
              endLocation |-> IF i = nlegs THEN end_loc ELSE Waypoint,
              steps |-> [k \in 1..(last(i) - first(i) + 1) |->
                            StepAt(kinds, first(i) + k - 1)]]]]

Cuts(n, nlegs) ==
    { cuts \in [1..(nlegs - 1) -> 0..n] :
          \A i \in 1..(nlegs - 2) : cuts[i] <= cuts[i + 1] }

LegCounts(kinds) == (IF kinds = <<>> THEN 0 ELSE 1)..MaxLegs

NoSampling ==
    [error |-> "none", samples |-> <<>>, current_elapsed |-> 0,
     last_sample_time |-> 0]

InitSampler ==
    /\ pc = "sample"
    /\ \E kinds \in SeqsUpTo(StepKinds, MaxSteps) :
         \E nlegs \in LegCounts(kinds) :
           \E cuts \in Cuts(Len(kinds), nlegs) :
             \E start_loc \in StartLocations, end_loc \in EndLocations,
                duration \in RouteDurations :
               route_obj = MakeRoute(kinds, nlegs, cuts, start_loc, end_loc,
                                     duration)
    /\ sampling = NoSampling
    /\ CodecIdle
    /\ PathIdle
    /\ MatcherIdle
    /\ ToolsIdle

SampleRoute ==
    /\ pc = "sample"
    /\ sampling' = route_forecast_samples(route_obj)
    /\ pc' = "sampled"
    /\ UNCHANGED <<route_obj, forecast_data, target_time, match>>
    /\ UNCHANGED utils_vars
    /\ UNCHANGED tools_vars

NextSampler == SampleRoute

SpecSampler == InitSampler /\ [][NextSampler]_vars

---------------------------------------------------------------------------
(* The forecast matcher, cli.py 107-133.                                   *)
(*                                                                         *)
(* Times are seconds of one day.  A startTime text is [kind, wall,         *)
(* suffix]: kind "missing" for an entry without interval or startTime (or  *)
(* with an empty one), "garbage" for a text that is no ISO time, "iso" for *)
(* the wall-clock time wall followed by the suffix "Z", "+01:00" or        *)
(* nothing.  target_time is the aware UTC time of line 460.  A forecast    *)
(* response is [has_hours, forecastHours]; the result is [error, closest], *)
(* closest being <<>> for None and <<entry>> for an entry.                 *)

NoStartTime == [kind |-> "missing", wall |-> 0, suffix |-> ""]
Garbage == [kind |-> "garbage", wall |-> 0, suffix |-> ""]
Iso(wall, suffix) == [kind |-> "iso", wall |-> wall, suffix |-> suffix]

Abs(x) == IF x < 0 THEN -x ELSE x

\* line 116: float("inf"), the minimum over no difference yet
inf == <<>>

\* line 124: datetime.fromisoformat(text.replace("Z", "+00:00")): a
\* ValueError for a text that is no ISO time, an aware datetime for a text
\* with an offset, a naive one for a text without
fromisoformat(date_string) ==
    IF date_string.kind # "iso"
    THEN [error |-> "ValueError", wall |-> 0, aware |-> FALSE, utcoffset |-> 0]
    ELSE [error |-> "none", wall |-> date_string.wall,
          aware |-> date_string.suffix # "",
          utcoffset |-> IF date_string.suffix = "+01:00" THEN 3600 ELSE 0]

\* line 125: (f_time - target_time).total_seconds() of two aware datetimes
total_seconds_between(f_time, target) == (f_time.wall - f_time.utcoffset) - target

\* lines 119-131 without abs() at line 125: a plausible slip
scan_entry_signed(w, entry, target) ==
    LET forecast_time_str == entry.startTime
        f_time == fromisoformat(forecast_time_str)
        diff == total_seconds_between(f_time, target)
    IN  IF forecast_time_str.kind = "missing" THEN w
        ELSE IF f_time.error = "ValueError" THEN w
        ELSE IF ~f_time.aware THEN [w EXCEPT !.error = "TypeError"]
        ELSE IF w.min_diff = inf \/ diff < w.min_diff[1]
        THEN [w EXCEPT !.min_diff = <<diff>>, !.closest = <<entry>>]
        ELSE w

\* lines 119-131 with "<=" for "<" at line 127: a plausible slip
scan_entry_last_wins(w, entry, target) ==
    LET forecast_time_str == entry.startTime
        f_time == fromisoformat(forecast_time_str)
        diff == Abs(total_seconds_between(f_time, target))
    IN  IF forecast_time_str.kind = "missing" THEN w
        ELSE IF f_time.error = "ValueError" THEN w
        ELSE IF ~f_time.aware THEN [w EXCEPT !.error = "TypeError"]
        ELSE IF w.min_diff = inf \/ diff <= w.min_diff[1]
        THEN [w EXCEPT !.min_diff = <<diff>>, !.closest = <<entry>>]
        ELSE w

\* lines 119-131: the loop's body on w = [error, closest, min_diff].  The
\* subtraction of the aware target_time from a naive f_time raises
\* TypeError, which line 130 does not catch.
scan_entry(w, entry, target) ==
    LET forecast_time_str == entry.startTime
        f_time == fromisoformat(forecast_time_str)
        diff == Abs(total_seconds_between(f_time, target))
    IN  IF forecast_time_str.kind = "missing" THEN w
        ELSE IF f_time.error = "ValueError" THEN w
        ELSE IF ~f_time.aware THEN [w EXCEPT !.error = "TypeError"]
        ELSE IF w.min_diff = inf \/ diff < w.min_diff[1]
        THEN [w EXCEPT !.min_diff = <<diff>>, !.closest = <<entry>>]
        ELSE w

\* line 118: for entry in hourly, ended by an exception
RECURSIVE scan_hourly(_, _, _, _)
scan_hourly(w, hourly, k, target) ==
    IF k > Len(hourly) \/ w.error # "none"
    THEN w
    ELSE scan_hourly(scan_entry(w, hourly[k], target), hourly, k + 1, target)

\* lines 107-133
find_forecast_for_time(data, target) ==
    LET hourly == IF data.has_hours THEN data.forecastHours ELSE <<>>
        w == scan_hourly([error |-> "none", closest |-> <<>>, min_diff |-> inf],
                         hourly, 1, target)
    IN  IF hourly = <<>>
        THEN [error |-> "none", closest |-> <<>>]
        ELSE [error |-> w.error,
              closest |-> IF w.error = "none" THEN w.closest ELSE <<>>]

---------------------------------------------------------------------------
(* The matcher's client: a forecast list of at most MaxEntries entries     *)
(* with start times 10:00, 11:00 and 12:00 UTC, 12:00 at +01:00 (11:00     *)
(* UTC), 12:00 without an offset, a garbage text or none, and targets      *)
(* 11:00, 11:20, 11:30 and 11:40 UTC.  An entry's payload (temp) is its    *)
(* position in the list, so that a returned entry tells its index.         *)

StartTimes ==
    { NoStartTime, Garbage, Iso(36000, "Z"), Iso(39600, "Z"), Iso(43200, "Z"),
      Iso(43200, "+01:00"), Iso(43200, "") }

TargetTimes == { 39600, 40800, 41400, 42000 }

HourlyOf(times) ==
    [k \in 1..Len(times) |-> [startTime |-> times[k], temp |-> k]]

NoForecast == [has_hours |-> FALSE, forecastHours |-> <<>>]

NoMatch == [error |-> "none", closest |-> <<>>]

InitMatcher ==
    /\ pc = "match"
    /\ \/ forecast_data = NoForecast
       \/ \E times \in SeqsUpTo(StartTimes, MaxEntries) :
            forecast_data = [has_hours |-> TRUE, forecastHours |-> HourlyOf(times)]
    /\ target_time \in TargetTimes
    /\ match = NoMatch
    /\ CodecIdle
    /\ PathIdle
    /\ SamplerIdle
    /\ ToolsIdle

FindForecast ==
    /\ pc = "match"
    /\ match' = find_forecast_for_time(forecast_data, target_time)
    /\ pc' = "matched"
    /\ UNCHANGED <<route_obj, sampling, forecast_data, target_time>>
    /\ UNCHANGED utils_vars
    /\ UNCHANGED tools_vars

NextMatcher == FindForecast

SpecMatcher == InitMatcher /\ [][NextMatcher]_vars

---------------------------------------------------------------------------
(* generate_ascii_chart, utils.py 129-164.                                 *)
(*                                                                         *)
(* The series holds integers.  On the series and heights of this model     *)
(* the float expressions of lines 143 and 157 have the value of the exact  *)
(* quotients written here.  The returned text is the sequence of its       *)
(* lines, "" being no line: a labelled row is [kind, label, cells], the    *)
(* axis row [kind, dashes].  The outcome keeps the locals normalized and   *)
(* grid as they are when the function returns or raises.                   *)

SeqMin(xs) == CHOOSE m \in { xs[i] : i \in 1..Len(xs) } :
                  \A i \in 1..Len(xs) : m <= xs[i]

SeqMax(xs) == CHOOSE m \in { xs[i] : i \in 1..Len(xs) } :
                  \A i \in 1..Len(xs) : m >= xs[i]

\* int() of the quotient num / den, den > 0: towards zero
TruncDiv(num, den) ==
    IF num >= 0 THEN num \div den ELSE -((-num) \div den)

\* lines 138-140
chart_range(chart_series) ==
    LET range_val == SeqMax(chart_series) - SeqMin(chart_series)
    IN  IF range_val = 0 THEN 1 ELSE range_val

\* line 143 scaling by height for height - 1: a plausible slip
normalize_by_height(chart_series, rows) ==
    [i \in 1..Len(chart_series) |->
        TruncDiv((chart_series[i] - SeqMin(chart_series)) * rows,
                 chart_range(chart_series))]

\* line 143: int((x - min_val) / range_val * (height - 1)) for x in data
normalize(chart_series, rows) ==
    [i \in 1..Len(chart_series) |->
        TruncDiv((chart_series[i] - SeqMin(chart_series)) * (rows - 1),
                 chart_range(chart_series))]

\* lines 146-149: the grid, top row first, after the writes of line 149.
\* Python reads a list index r in -rows..-1 as rows + r and raises
\* IndexError outside -rows..rows-1.
RowOfWrite(rows, y) ==
    LET r == rows - 1 - y
    IN  IF r < 0 THEN rows + r ELSE r

WriteInRange(rows, y) ==
    LET r == rows - 1 - y
    IN  -rows <= r /\ r <= rows - 1

fill_grid(normalized, rows) ==
    [r \in 1..rows |->
        [x \in 1..Len(normalized) |->
            IF WriteInRange(rows, normalized[x])
               /\ RowOfWrite(rows, normalized[x]) = r - 1
            THEN "*" ELSE " "]]

\* lines 154-160: the labelled rows, for rows > 1.  The label is
\* int(max_val - y * label_step) with label_step = range_val / (height - 1)
chart_rows(chart_series, rows, grid) ==
    [y \in 1..rows |->
        [kind |-> "row",
         label |-> TruncDiv(SeqMax(chart_series) * (rows - 1)
                                - (y - 1) * chart_range(chart_series),
                            rows - 1),
         cells |-> grid[y]]]

\* lines 129-164.  Line 154 divides by height - 1.
generate_ascii_chart(chart_series, rows) ==
    IF chart_series = <<>>
    THEN [error |-> "none", normalized |-> <<>>, grid |-> <<>>, lines |-> <<>>]
    ELSE LET normalized == normalize(chart_series, rows)
             in_range == \A x \in 1..Len(normalized) :
                             WriteInRange(rows, normalized[x])
             grid == fill_grid(normalized, rows)
         IN  IF ~in_range
             THEN [error |-> "IndexError", normalized |-> normalized,
                   grid |-> grid, lines |-> <<>>]
             ELSE IF rows - 1 = 0
             THEN [error |-> "ZeroDivisionError", normalized |-> normalized,
                   grid |-> grid, lines |-> <<>>]
             ELSE [error |-> "none", normalized |-> normalized,
                   grid |-> grid,
                   lines |-> Append(chart_rows(chart_series, rows, grid),
                                    [kind |-> "axis",
                                     dashes |-> Len(chart_series)])]

---------------------------------------------------------------------------
(* The chart's client: a series of at most MaxSeries values and a height   *)
(* from 1 to MaxHeight.                                                    *)

ChartValues == { -2, 0, 1, 5 }

NoChart == [error |-> "none", normalized |-> <<>>, grid |-> <<>>, lines |-> <<>>]

InitChart ==
    /\ pc = "chart"
    /\ chart_data \in SeqsUpTo(ChartValues, MaxSeries)
    /\ chart_height \in 1..MaxHeight
    /\ chart = NoChart
    /\ CodecIdle
    /\ PathIdle
    /\ IdleOutsideChart

GenerateAsciiChart ==
    /\ pc = "chart"
    /\ chart' = generate_ascii_chart(chart_data, chart_height)
    /\ pc' = "charted"
    /\ UNCHANGED <<chart_data, chart_height>>
    /\ UNCHANGED outside_chart

NextChart == GenerateAsciiChart

SpecChart == InitChart /\ [][NextChart]_vars

---------------------------------------------------------------------------
(* Two invocations of the core operations, interleaved iteration by        *)
(* iteration.  An invocation is a frame [op, locals, done, result] of its  *)
(* own; its arguments are the caller's objects task_args, which the        *)
(* function could modify in place, and module_state holds the objects of   *)
(* module level, which every invocation could reach.  One iteration takes  *)
(* the frame, the arguments and the module state and gives them back as    *)
(* [frame, args, globals]: the functions name no module-level object and   *)
(* assign only to their locals.                                            *)

Running(op, locals) ==
    [op |-> op, locals |-> locals, done |-> FALSE, result |-> <<>>]

Returning(frame, result) ==
    [op |-> frame.op, locals |-> frame.locals, done |-> TRUE,
     result |-> result]

Turn(frame, args, globals) ==
    [frame |-> frame, args |-> args, globals |-> globals]

\* the locals at the function's first loop test
Entered(op) ==
    CASE op = "decode_polyline" ->
             Running(op, [index |-> 1, lat |-> 0, lng |-> 0, coordinates |-> <<>>])
      [] op = "encode_polyline" ->
             Running(op, [k |-> 1, prev_lat |-> 0, prev_lng |-> 0, result |-> <<>>])
      [] op = "get_nearest_point_on_polyline" ->
             Running(op, [i |-> 0, min_dist |-> Infinity, best_index |-> -1])
      [] op = "calculate_cumulative_distances" ->
             Running(op, [i |-> 1, total |-> 0, distances |-> <<0>>])
      [] op = "generate_ascii_chart" ->
             Running(op, [x |-> 1, normalized |-> <<>>])
      [] op = "find_forecast_for_time" ->
             Running(op, [k |-> 1, error |-> "none", closest |-> <<>>,
                          min_diff |-> inf])

\* utils.py 24-44, one iteration of the outer loop
decode_iteration(frame, args, globals) ==
    LET l == frame.locals
        first == read_value(args, l.index, 0, 0)
        second == read_value(args, first.index, 0, 0)
        lat == l.lat + zigzag_decode(first.result)
        lng == l.lng + zigzag_decode(second.result)
    IN  IF ~(l.index <= Len(args))
        THEN Turn(Returning(frame, [error |-> "none", value |-> l.coordinates]),
                  args, globals)
        ELSE IF first.error # "none"
        THEN Turn(Returning(frame, [error |-> first.error, value |-> <<>>]),
                  args, globals)
        ELSE IF second.error # "none"
        THEN Turn(Returning(frame, [error |-> second.error, value |-> <<>>]),
                  args, globals)
        ELSE Turn(Running(frame.op,
                          [index |-> second.index, lat |-> lat, lng |-> lng,
                           coordinates |->
                               Append(l.coordinates,
                                      GeoPoint(to_degrees(lat), to_degrees(lng)))]),
                  args, globals)

\* utils.py 64-71, one iteration
encode_iteration(frame, args, globals) ==
    LET l == frame.locals
    IN  IF l.k > Len(args)
        THEN Turn(Returning(frame, l.result), args, globals)
        ELSE LET lat == round_e5(args[l.k].latitude)
                 lng == round_e5(args[l.k].longitude)
             IN  Turn(Running(frame.op,
                              [k |-> l.k + 1, prev_lat |-> lat, prev_lng |-> lng,
                               result |-> l.result
                                              \o encode_value(lat - l.prev_lat)
                                              \o encode_value(lng - l.prev_lng)]),
                      args, globals)

\* utils.py 103-109, one iteration
nearest_iteration(frame, args, globals) ==
    LET l == frame.locals
    IN  IF l.i >= Len(args.polyline_points)
        THEN Turn(Returning(frame, [error |-> "none", min_dist |-> l.min_dist,
                                    best_index |-> l.best_index]),
                  args, globals)
        ELSE LET p == args.polyline_points[l.i + 1]
                 d == haversine_distance(args.point_lat, args.point_lng,
                                         p.latitude, p.longitude)
             IN  Turn(Running(frame.op,
                              IF d < l.min_dist
                              THEN [i |-> l.i + 1, min_dist |-> d,
                                    best_index |-> l.i]
                              ELSE [i |-> l.i + 1, min_dist |-> l.min_dist,
                                    best_index |-> l.best_index]),
                      args, globals)

\* utils.py 118-125 with total kept at module level instead of line 117's
\* local: a plausible slip
cumulative_iteration_module_total(frame, args, globals) ==
    LET l == frame.locals
        kept == IF "total" \in DOMAIN globals THEN globals.total ELSE 0
    IN  IF l.i >= Len(args)
        THEN Turn(Returning(frame, l.distances), args, globals)
        ELSE LET p1 == args[l.i]
                 p2 == args[l.i + 1]
                 d == haversine_distance(p1.latitude, p1.longitude,
                                         p2.latitude, p2.longitude)
             IN  Turn(Running(frame.op,
                              [i |-> l.i + 1, total |-> kept + d,
                               distances |-> Append(l.distances, kept + d)]),
                      args, [total |-> kept + d])

\* utils.py 118-125, one iteration
cumulative_iteration(frame, args, globals) ==
    LET l == frame.locals
    IN  IF l.i >= Len(args)
        THEN Turn(Returning(frame, l.distances), args, globals)
        ELSE LET p1 == args[l.i]
                 p2 == args[l.i + 1]
                 d == haversine_distance(p1.latitude, p1.longitude,
                                         p2.latitude, p2.longitude)
             IN  Turn(Running(frame.op,
                              [i |-> l.i + 1, total |-> l.total + d,
                               distances |-> Append(l.distances, l.total + d)]),
                      args, globals)

\* utils.py 133-164: one element of line 143's list per iteration, then
\* the grid and the lines
chart_iteration(frame, args, globals) ==
    LET l == frame.locals
        rows == args.height
        in_range == \A x \in 1..Len(l.normalized) :
                        WriteInRange(rows, l.normalized[x])
        grid == fill_grid(l.normalized, rows)
        outcome(error, lines) ==
            [error |-> error, normalized |-> l.normalized, grid |-> grid,
             lines |-> lines]
    IN  IF args.data = <<>>
        THEN Turn(Returning(frame, [error |-> "none", normalized |-> <<>>,
                                    grid |-> <<>>, lines |-> <<>>]),
                  args, globals)
        ELSE IF l.x <= Len(args.data)
        THEN Turn(Running(frame.op,
                          [x |-> l.x + 1,
                           normalized |->
                               Append(l.normalized,
                                      TruncDiv((args.data[l.x] - SeqMin(args.data))
                                                   * (rows - 1),
                                               chart_range(args.data)))]),
                  args, globals)
        ELSE IF ~in_range
        THEN Turn(Returning(frame, outcome("IndexError", <<>>)), args, globals)
        ELSE IF rows - 1 = 0
        THEN Turn(Returning(frame, outcome("ZeroDivisionError", <<>>)),
                  args, globals)
        ELSE Turn(Returning(frame,
                            outcome("none",
                                    Append(chart_rows(args.data, rows, grid),
                                           [kind |-> "axis",
                                            dashes |-> Len(args.data)]))),
                  args, globals)

\* cli.py 111-133, one entry per iteration
match_iteration(frame, args, globals) ==
    LET l == frame.locals
        hourly == IF args.forecast_data.has_hours
                  THEN args.forecast_data.forecastHours ELSE <<>>
        w == [error |-> l.error, closest |-> l.closest, min_diff |-> l.min_diff]
    IN  IF hourly = <<>>
        THEN Turn(Returning(frame, [error |-> "none", closest |-> <<>>]),
                  args, globals)
        ELSE IF l.error # "none"
        THEN Turn(Returning(frame, [error |-> l.error, closest |-> <<>>]),
                  args, globals)
        ELSE IF l.k > Len(hourly)
        THEN Turn(Returning(frame, [error |-> "none", closest |-> l.closest]),
                  args, globals)
        ELSE LET after == scan_entry(w, hourly[l.k], args.target_time)
             IN  Turn(Running(frame.op,
                              [k |-> l.k + 1, error |-> after.error,
                               closest |-> after.closest,
                               min_diff |-> after.min_diff]),
                      args, globals)

iteration(frame, args, globals) ==
    CASE frame.op = "decode_polyline" -> decode_iteration(frame, args, globals)
      [] frame.op = "encode_polyline" -> encode_iteration(frame, args, globals)
      [] frame.op = "get_nearest_point_on_polyline" ->
             nearest_iteration(frame, args, globals)
      [] frame.op = "calculate_cumulative_distances" ->
             cumulative_iteration(frame, args, globals)
      [] frame.op = "generate_ascii_chart" -> chart_iteration(frame, args, globals)
      [] frame.op = "find_forecast_for_time" ->
             match_iteration(frame, args, globals)

---------------------------------------------------------------------------
(* The interleaving's client: two invocations, each of any of the six      *)
(* operations on any of its arguments below, and every order of their      *)
(* iterations.                                                             *)

Origin == GeoPoint(0, 0)
Near == GeoPoint(1 * SubUnits, -1 * SubUnits)
Far == GeoPoint(-17 * SubUnits, 16 * SubUnits)

TaskMiles == [pair \in PointPairs |-> IF Origin \in pair THEN 1 ELSE 2]

ArgumentsOf(op) ==
    CASE op = "decode_polyline" -> { ReferenceText, <<63, 64, 95>> }
      [] op = "encode_polyline" -> { <<Near>>, <<Far, Near>> }
      [] op = "get_nearest_point_on_polyline" ->
             { [point_lat |-> 0, point_lng |-> 0, polyline_points |-> <<Far, Near>>],
               [point_lat |-> Near.latitude, point_lng |-> Near.longitude,
                polyline_points |-> <<Origin, Far, Origin>>] }
      [] op = "calculate_cumulative_distances" ->
             { <<Origin, Near, Far>>, <<Far, Origin>> }
      [] op = "generate_ascii_chart" ->
             { [data |-> <<-2, 0, 1>>, height |-> 3],
               [data |-> <<5, 5>>, height |-> 1] }
      [] op = "find_forecast_for_time" ->
             { [forecast_data |->
                    [has_hours |-> TRUE,
                     forecastHours |->
                         HourlyOf(<<Iso(36000, "Z"), Garbage, Iso(43200, "Z")>>)],
                target_time |-> 42000],
               [forecast_data |->
                    [has_hours |-> TRUE,
                     forecastHours |->
                         HourlyOf(<<Iso(39600, "Z"), Iso(43200, "")>>)],
                target_time |-> 39600] }

Operations ==
    { "decode_polyline", "encode_polyline", "get_nearest_point_on_polyline",
      "calculate_cumulative_distances", "generate_ascii_chart",
      "find_forecast_for_time" }

TaskIds == 1..2

ModuleObjects == [tf |-> "TimezoneFinder", console |-> "Console"]

InitTasks ==
    /\ pc = "interleave"
    /\ \E ops \in [TaskIds -> Operations] :
         /\ tasks = [t \in TaskIds |-> Entered(ops[t])]
         /\ \E a1 \in ArgumentsOf(ops[1]), a2 \in ArgumentsOf(ops[2]) :
              task_args = [t \in TaskIds |-> IF t = 1 THEN a1 ELSE a2]
    /\ module_state = ModuleObjects
    /\ miles = TaskMiles
    /\ points = <<>>
    /\ text = <<>>
    /\ coordinates = NoCoordinates
    /\ polyline_points = <<>>
    /\ point = NoPoint
    /\ distances = <<>>
    /\ nearest = NoNearest
    /\ IdleOutsideTasks

RunTask(t) ==
    /\ pc = "interleave"
    /\ ~tasks[t].done
    /\ LET turn == iteration(tasks[t], task_args[t], module_state)
       IN  /\ tasks' = [tasks EXCEPT ![t] = turn.frame]
           /\ task_args' = [task_args EXCEPT ![t] = turn.args]
           /\ module_state' = turn.globals
    /\ UNCHANGED pc
    /\ UNCHANGED outside_task

NextTasks == \E t \in TaskIds : RunTask(t)

SpecTasks == InitTasks /\ [][NextTasks]_vars

---------------------------------------------------------------------------
(* format_duration, cli.py 60-69.  A string is here the sequence of its    *)
(* characters, so that int() and the f-strings are conversions between     *)
(* digits and numbers.                                                     *)

DigitChars == <<"0", "1", "2", "3", "4", "5", "6", "7", "8", "9">>

IsDigit(c) == \E d \in 1..10 : DigitChars[d] = c

DigitValue(c) == (CHOOSE d \in 1..10 : DigitChars[d] = c) - 1

\* f"{n}" for an integer n
RECURSIVE Decimal(_)
Decimal(n) ==
    IF n < 0 THEN <<"-">> \o Decimal(-n)
    ELSE IF n < 10 THEN <<DigitChars[n + 1]>>
    ELSE Decimal(n \div 10) \o <<DigitChars[(n % 10) + 1]>>

RECURSIVE DigitsValue(_, _)
DigitsValue(chars, value) ==
    IF chars = <<>>
    THEN value
    ELSE DigitsValue(Tail(chars), 10 * value + DigitValue(Head(chars)))

\* int(chars) on the characters in use: an optional sign and one digit or
\* more, anything else being a ValueError
int_of(chars) ==
    LET signed == chars # <<>> /\ Head(chars) \in {"-", "+"}
        digits == IF signed THEN Tail(chars) ELSE chars
    IN  IF digits = <<>> \/ \E k \in 1..Len(digits) : ~IsDigit(digits[k])
        THEN [error |-> "ValueError", value |-> 0]
        ELSE [error |-> "none",
              value |-> IF signed /\ Head(chars) = "-"
                        THEN -DigitsValue(digits, 0)
                        ELSE DigitsValue(digits, 0)]

\* seconds_str.replace("s", "")
without_s(chars) == SelectSeq(chars, LAMBDA c : c # "s")

\* lines 60-69 with the minutes of line 64 not reduced modulo the hour: a
\* plausible slip
format_duration_whole_minutes(duration_text) ==
    LET parsed == int_of(without_s(duration_text))
        total_seconds == parsed.value
        hours == total_seconds \div 3600
        minutes == total_seconds \div 60
    IN  IF parsed.error # "none"
        THEN duration_text
        ELSE IF hours > 0
        THEN Decimal(hours) \o <<"h", " ">> \o Decimal(minutes) \o <<"m">>
        ELSE Decimal(minutes) \o <<"m">>

\* lines 60-69; // and % are \div and % (floor, divisor > 0)
format_duration(duration_text) ==
    LET parsed == int_of(without_s(duration_text))
        total_seconds == parsed.value
        hours == total_seconds \div 3600
        minutes == (total_seconds % 3600) \div 60
    IN  IF parsed.error # "none"
        THEN duration_text
        ELSE IF hours > 0
        THEN Decimal(hours) \o <<"h", " ">> \o Decimal(minutes) \o <<"m">>
        ELSE Decimal(minutes) \o <<"m">>

---------------------------------------------------------------------------
(* format_duration's client: the texts "<n>s" of some durations, and       *)
(* every string of at most MaxDurationLen of the characters below.         *)

DurationSeconds == { 0, 59, 60, 3599, 3600, 3661, 7325, 86400 }

DurationChars == { "0", "6", "s", "-", "x" }

DurationTexts ==
    { Decimal(n) \o <<"s">> : n \in DurationSeconds }
        \cup SeqsUpTo(DurationChars, MaxDurationLen)
        \cup { <<"i", "n", "v", "a", "l", "i", "d">>, <<"N", "/", "A">> }

InitFormat ==
    /\ pc = "format"
    /\ seconds_str \in DurationTexts
    /\ formatted = <<>>
    /\ CodecIdle
    /\ PathIdle
    /\ IdleOutsideFormat

FormatDuration ==
    /\ pc = "format"
    /\ formatted' = format_duration(seconds_str)
    /\ pc' = "formatted"
    /\ UNCHANGED seconds_str
    /\ UNCHANGED outside_format

NextFormat == FormatDuration

SpecFormat == InitFormat /\ [][NextFormat]_vars

---------------------------------------------------------------------------
(* The garage: Settings.load_garage and save_garage, config.py 47-59, and  *)
(* the commands garage add and garage list, cli.py 650-690.                *)
(*                                                                         *)
(* A garage is a function from vehicle names to VehicleConfig records, {}  *)
(* being the function of no name.  garage.json is [kind, entries]: kind    *)
(* "missing" for no file, "corrupt" for a text json.loads rejects, "json"  *)
(* for an object of entries, each a function from field names to values.   *)
(* A call that was not made is <<>>, a call's value v is <<v>>.             *)

PyNone == "<None>"

ConfigFields == { "mode", "engine", "avoid_tolls", "avoid_highways", "avoid_ferries" }

\* config.py 8-13 and cli.py 656-658
VehicleConfig(mode, engine, avoid_tolls, avoid_highways) ==
    [mode |-> mode, engine |-> engine, avoid_tolls |-> avoid_tolls,
     avoid_highways |-> avoid_highways, avoid_ferries |-> FALSE]

\* config.py 58: v.model_dump(exclude_none=True); engine is the one field
\* that can be None
model_dump(config) ==
    [f \in { g \in ConfigFields : g # "engine" \/ config.engine # PyNone } |->
        config[f]]

\* config.py 52: VehicleConfig(**v) accepts an entry with a mode
Validates(entry) == "mode" \in DOMAIN entry

\* config.py 52: VehicleConfig(**v), the fields left out at their defaults
parse_config(entry) ==
    [f \in ConfigFields |->
        IF f \in DOMAIN entry THEN entry[f]
        ELSE IF f = "engine" THEN PyNone ELSE FALSE]

\* config.py 47-54: any exception gives the empty garage
load_garage(file) ==
    IF file.kind # "json"
    THEN <<>>
    ELSE IF \E k \in DOMAIN file.entries : ~Validates(file.entries[k])
    THEN <<>>
    ELSE [k \in DOMAIN file.entries |-> parse_config(file.entries[k])]

\* config.py 56-59
save_garage(garage) ==
    [kind |-> "json",
     entries |-> [k \in DOMAIN garage |-> model_dump(garage[k])]]

\* cli.py 656: garage_data[name] = VehicleConfig(...)
set_vehicle(garage_data, name, config) ==
    [k \in DOMAIN garage_data \cup {name} |->
        IF k = name THEN config ELSE garage_data[k]]

\* cli.py 682-689: the table's rows, as a set
garage_rows(garage_data) ==
    { [name |-> k, mode |-> garage_data[k].mode,
       engine |-> IF garage_data[k].engine = PyNone
                  THEN "-" ELSE garage_data[k].engine,
       tolls |-> garage_data[k].avoid_tolls,
       highways |-> garage_data[k].avoid_highways] : k \in DOMAIN garage_data }

---------------------------------------------------------------------------
(* The garage's client: garage add on any garage.json of the entries       *)
(* below, followed by garage list.                                         *)

VehicleNames == { "my-tesla", "bike" }

Vehicles ==
    { [name |-> n, config |-> VehicleConfig(m, e, t, FALSE)] :
          n \in VehicleNames, m \in { "drive", "bicycle" },
          e \in { PyNone, "electric" }, t \in BOOLEAN }

FileEntries ==
    { model_dump(VehicleConfig("drive", "gasoline", FALSE, TRUE)),
      model_dump(VehicleConfig("walk", PyNone, FALSE, FALSE)),
      [f \in {"mode"} |-> "transit"],
      [f \in {"engine"} |-> "diesel"] }

GarageFiles ==
    { [kind |-> "missing", entries |-> <<>>],
      [kind |-> "corrupt", entries |-> <<>>] }
        \cup UNION { { [kind |-> "json", entries |-> e] : e \in [names -> FileEntries] } :
                     names \in SUBSET VehicleNames }

InitGarage ==
    /\ pc = "garage add"
    /\ settings \in BOOLEAN
    /\ garage_file \in GarageFiles
    /\ vehicle \in Vehicles
    /\ garage_loaded = <<>>
    /\ garage_saved = <<>>
    /\ console_out = <<>>
    /\ CodecIdle
    /\ PathIdle
    /\ IdleOutsideGarage

\* cli.py 650-660
GarageAdd ==
    /\ pc = "garage add"
    /\ pc' = "garage list"
    /\ IF ~settings
       THEN /\ garage_loaded' = <<>>
            /\ garage_saved' = <<>>
            /\ console_out' = <<>>
            /\ UNCHANGED garage_file
       ELSE LET garage_data == set_vehicle(load_garage(garage_file),
                                           vehicle.name, vehicle.config)
            IN  /\ garage_loaded' = << load_garage(garage_file) >>
                /\ garage_saved' = << garage_data >>
                /\ garage_file' = save_garage(garage_data)
                /\ console_out' = << [added |-> vehicle.name] >>
    /\ UNCHANGED <<settings, vehicle>>
    /\ UNCHANGED outside_garage

\* cli.py 664-690
GarageList ==
    /\ pc = "garage list"
    /\ pc' = "listed"
    /\ IF ~settings
       THEN /\ garage_loaded' = <<>>
            /\ console_out' = <<>>
       ELSE /\ garage_loaded' = << load_garage(garage_file) >>
            /\ console_out' =
                   IF load_garage(garage_file) = <<>>
                   THEN << [empty |-> TRUE] >>
                   ELSE << [table |-> garage_rows(load_garage(garage_file))] >>
    /\ UNCHANGED <<settings, garage_file, vehicle, garage_saved>>
    /\ UNCHANGED outside_garage

NextGarage == GarageAdd \/ GarageList

SpecGarage == InitGarage /\ [][NextGarage]_vars

---------------------------------------------------------------------------
(* The enrichment of the places found along the route, cli.py 496-535:     *)
(* the route is decoded once, its table of cumulative distances is built   *)
(* once, and every place gets its detour distance and its trip mile from   *)
(* the nearest of every fifth vertex of the route.                         *)

\* a place of the search's answer: location.latitude and
\* location.longitude, or no location at all (lines 515-517)
NoLocation == [located |-> FALSE, latitude |-> 0, longitude |-> 0]
PlaceAt(p) ==
    [located |-> TRUE, latitude |-> p.latitude, longitude |-> p.longitude]

\* line 524
STEP == 5

\* line 519, "if lat and lng": None and 0.0 are both falsy
has_location(a_place) ==
    a_place.located /\ a_place.latitude # 0 /\ a_place.longitude # 0

\* line 525, route_points[::STEP]: the vertices at the 0-based positions
\* 0, STEP, 2 * STEP, ...
every_step(pts) ==
    [k \in 1..((Len(pts) + STEP - 1) \div STEP) |-> pts[(k - 1) * STEP + 1]]

\* lines 530-532 with a stride one more than the slice's: a plausible slip
map_index_other_stride(sub_index, table) ==
    LET mapped == sub_index * (STEP + 1)
    IN  [mapped |-> mapped,
         real_index |-> IF mapped >= Len(table) THEN Len(table) - 1
                        ELSE mapped]

\* lines 530-532: real_index = sub_index * STEP, clamped to the table
map_index(sub_index, table) ==
    LET mapped == sub_index * STEP
    IN  [mapped |-> mapped,
         real_index |-> IF mapped >= Len(table) THEN Len(table) - 1
                        ELSE mapped]

\* line 535, cumulative_distances[real_index]: a Python list read, which
\* counts a negative index from the end and raises outside -len..len-1
list_item(table, i) ==
    IF i \in 0..(Len(table) - 1)
    THEN [error |-> "none", value |-> table[i + 1]]
    ELSE IF i \in (0 - Len(table))..(-1)
         THEN [error |-> "none", value |-> table[Len(table) + i + 1]]
         ELSE [error |-> "IndexError", value |-> 0]

\* lines 515-538, the body of the loop for one place
enrich(a_place, route_points, cumulative_distances) ==
    IF has_location(a_place)
    THEN LET sub_points == every_step(route_points)
             scan == get_nearest_point_on_polyline(a_place.latitude,
                                                   a_place.longitude,
                                                   sub_points)
             index == map_index(scan.best_index, cumulative_distances)
             item == list_item(cumulative_distances, index.real_index)
         IN  [error |-> item.error,
              read |-> TRUE,
              sub_index |-> scan.best_index,
              mapped |-> index.mapped,
              real_index |-> index.real_index,
              detour_mi |-> scan.min_dist,
              trip_mi |-> item.value]
    ELSE [error |-> "none",
          read |-> FALSE,
          sub_index |-> 0,
          mapped |-> 0,
          real_index |-> 0,
          detour_mi |-> Infinity,
          trip_mi |-> Infinity]

\* The decoded route: decode_polyline gives at least one point for the
\* non-empty string line 497 lets through, or raises before line 504.
RouteVertices == { Origin, Near }
Routes == SeqsUpTo(RouteVertices, MaxRoute) \ { <<>> }
Places == { NoLocation } \cup { PlaceAt(p) : p \in PathPoints }

InitEnrich ==
    /\ pc = "find"
    /\ polyline_points \in Routes
    /\ miles \in [PointPairs -> 0..MaxMiles]
    /\ place \in Places
    /\ enriched = <<>>
    /\ point = NoPoint
    /\ distances = <<>>
    /\ nearest = NoNearest
    /\ CodecIdle
    /\ IdleOutsideEnrich

\* line 504
PrecalculateDistances ==
    /\ pc = "find"
    /\ pc' = "enrich"
    /\ distances' = calculate_cumulative_distances(polyline_points)
    /\ UNCHANGED <<points, text, coordinates, polyline_points, point, miles,
                   nearest, place, enriched>>
    /\ UNCHANGED <<weather_vars, tools_outside_enrich>>

\* lines 513-538, for one place of places_list
EnrichPlace ==
    /\ pc = "enrich"
    /\ pc' = "enriched"
    /\ enriched' = enrich(place, polyline_points, distances)
    /\ UNCHANGED <<utils_vars, place>>
    /\ UNCHANGED <<weather_vars, tools_outside_enrich>>

NextEnrich ==
    \/ PrecalculateDistances
    \/ EnrichPlace

SpecEnrich == InitEnrich /\ [][NextEnrich]_vars

---------------------------------------------------------------------------
(* RouteRequester.search_along_route, core.py 72-118: the pages of a text  *)
(* search, asked one after the other.  The service is the environment:     *)
(* every request gets either an error or a page.                           *)

\* line 86, range(3)
MaxPageRequests == 3

\* a request that failed: session.post or raise_for_status raised a
\* RequestException (lines 100-101), or response.json() raised requests'
\* JSONDecodeError, which is one (line 102)
RequestError ==
    [error |-> "RequestException",
     has_places |-> FALSE, places |-> <<>>, nextPageToken |-> PyNone]

\* the body of a response: "places" may be missing, "nextPageToken" too
Page(has_places, places, token) ==
    [error |-> "none",
     has_places |-> has_places, places |-> places, nextPageToken |-> token]

\* Python's truth of data.get("nextPageToken"): None and "" are falsy
has_token(token) == token # PyNone /\ token # ""

\* lines 87-97: the payload; "pageToken" is set only from the second
\* request on, the rest is the same in every request
payload_of(token) ==
    [textQuery |-> "query",
     pageToken |-> IF has_token(token) THEN token ELSE PyNone]

\* lines 104-106: data.get("places", []) and the extend
gather(places_so_far, page) ==
    IF page.has_places /\ page.places # <<>>
    THEN places_so_far \o page.places
    ELSE places_so_far

\* lines 86 and 108-110 with the break left out: a plausible slip
after_page_without_break(token, sent) ==
    IF sent >= MaxPageRequests THEN "return" ELSE "search"

\* lines 86 and 108-110: break without a token, else the next turn of the
\* loop if range(3) has one
after_page(token, sent) ==
    IF ~has_token(token)
    THEN "return"
    ELSE IF sent >= MaxPageRequests THEN "return" ELSE "search"

PlaceNames == { "cafe", "fuel" }
PageTokens == { PyNone, "", "page-b", "page-c" }
Answers ==
    { RequestError }
    \cup { Page(TRUE, places, token) :
               places \in SeqsUpTo(PlaceNames, MaxPagePlaces),
               token \in PageTokens }
    \cup { Page(FALSE, <<>>, token) : token \in PageTokens }

\* lines 77-78
InitSearch ==
    /\ pc = "search"
    /\ all_places = <<>>
    /\ next_page_token = PyNone
    /\ page_requests = <<>>
    /\ found = <<>>
    /\ CodecIdle
    /\ PathIdle
    /\ IdleOutsideSearch

\* lines 86-116: one turn of the loop, the request and its answer
PostPage ==
    /\ pc = "search"
    /\ Len(page_requests) < MaxPageRequests
    /\ \E answer \in Answers :
           LET sent == Append(page_requests,
                              [payload |-> payload_of(next_page_token),
                               answer |-> answer])
           IN  /\ page_requests' = sent
               /\ IF answer.error # "none"
                  THEN /\ pc' = "return"
                       /\ UNCHANGED <<all_places, next_page_token>>
                  ELSE /\ all_places' = gather(all_places, answer)
                       /\ next_page_token' = answer.nextPageToken
                       /\ pc' = after_page(answer.nextPageToken, Len(sent))
    /\ UNCHANGED found
    /\ UNCHANGED outside_search

\* line 118
ReturnPlaces ==
    /\ pc = "return"
    /\ pc' = "found"
    /\ found' = [error |-> "none", value |-> all_places]
    /\ UNCHANGED <<all_places, next_page_token, page_requests>>
    /\ UNCHANGED outside_search

NextSearch ==
    \/ PostPage
    \/ ReturnPlaces

\* Every turn ends: the request has a timeout (line 100), after which
\* session.post raises, and nothing else in the loop waits.
SpecSearch ==
    InitSearch /\ [][NextSearch]_vars /\ WF_vars(PostPage) /\ WF_vars(ReturnPlaces)

---------------------------------------------------------------------------
(* The whole program: any of the clients above.                            *)

Init ==
    \/ InitCodec
    \/ InitPath
    \/ InitSampler
    \/ InitMatcher
    \/ InitChart
    \/ InitTasks
    \/ InitFormat
    \/ InitGarage
    \/ InitEnrich
    \/ InitSearch

Next ==
    \/ NextCodec
    \/ NextPath
    \/ NextSampler
    \/ NextMatcher
    \/ NextChart
    \/ NextTasks
    \/ NextFormat
    \/ NextGarage
    \/ NextEnrich
    \/ NextSearch

Spec == Init /\ [][Next]_vars

---------------------------------------------------------------------------
(* The polyline format, stated on a whole string rather than as a scan:    *)
(* a character carries a 6-bit group, code minus 63; bit 0x20 of the group *)
(* says that the value continues; a value is the run of characters up to   *)
(* and including the first one with the bit clear.                         *)

Group(c) == c - 63
HasContinuation(c) == (Group(c) \div 32) % 2 = 1
Payload(c) == Group(c) % 32
InAlphabet(s) == \A i \in 1..Len(s) : s[i] \in 63..126

\* the positions of the characters that end a value
ValueEnds(s) == { i \in 1..Len(s) : ~HasContinuation(s[i]) }
NthEnd(s, j) ==
    CHOOSE i \in ValueEnds(s) : Cardinality({ e \in ValueEnds(s) : e <= i }) = j
ValueStart(s, j) == IF j = 1 THEN 1 ELSE NthEnd(s, j - 1) + 1

\* the number whose 5-bit groups, least significant first, are s[a..b]
RECURSIVE GroupsValue(_, _, _)
GroupsValue(s, a, b) ==
    IF a > b THEN 0 ELSE Payload(s[a]) + 32 * GroupsValue(s, a + 1, b)

\* the j-th encoded value of s
EncodedValue(s, j) == GroupsValue(s, ValueStart(s, j), NthEnd(s, j))

\* zigzag: the signed delta d is written as 2d, or as the complement of 2d
\* when d is negative; the two candidates for the delta behind v are
\* v >> 1 and the complement of v >> 1
ZigZag(d) == IF d < 0 THEN -(2 * d) - 1 ELSE 2 * d
DeltaOf(v) == CHOOSE d \in { v \div 2, -(v \div 2) - 1 } : ZigZag(d) = v

\* the sum of the first k latitude deltas (first = 1) or longitude deltas
\* (first = 0) written in s
RECURSIVE SumOfDeltas(_, _, _)
SumOfDeltas(s, k, first) ==
    IF k = 0
    THEN 0
    ELSE SumOfDeltas(s, k - 1, first) + DeltaOf(EncodedValue(s, 2 * k - first))

\* s is a whole number of (latitude, longitude) pairs of complete values
WellFormed(s) ==
    /\ InAlphabet(s)
    /\ s = <<>> \/ ~HasContinuation(s[Len(s)])
    /\ Cardinality(ValueEnds(s)) % 2 = 0

Quantized(p) == p.latitude % SubUnits = 0 /\ p.longitude % SubUnits = 0

---------------------------------------------------------------------------
(* Claims about the codec, under SpecCodec.                                *)

\* C1: decoding the encoding of a point list whose coordinates are all
\* multiples of 1e-5 degree (negative ones and the empty list included)
\* returns a list of the same length with the same point at every position.
RoundTrip ==
    (pc = "roundtrip" /\ \A k \in 1..Len(points) : Quantized(points[k]))
        => /\ coordinates.error = "none"
           /\ Len(coordinates.value) = Len(points)
           /\ \A k \in 1..Len(points) : coordinates.value[k] = points[k]

\* C1's case: two quantized points, the second with a negative latitude,
\* whose encoding has values of more than one group, came back unchanged.
RoundTripWitness ==
    /\ pc = "roundtrip"
    /\ Len(points) = 2
    /\ \A k \in 1..Len(points) : Quantized(points[k])
    /\ points[2].latitude < 0
    /\ Len(text) > 4
    /\ coordinates.value = points

\* C2: on a well-formed string decode_polyline returns one point per pair
\* of encoded values, in order; the k-th point is the sum of the first k
\* latitude deltas and of the first k longitude deltas, each value rebuilt
\* from its groups least significant first and un-zigzagged, divided by
\* 1e5; the reference string's first point is (38.5, -120.2).
DecodeRebuildsPoints ==
    /\ (pc = "decoded" /\ WellFormed(text))
           => /\ coordinates.error = "none"
              /\ Len(coordinates.value) = Cardinality(ValueEnds(text)) \div 2
              /\ \A k \in 1..Len(coordinates.value) :
                     coordinates.value[k] =
                         GeoPoint(SumOfDeltas(text, k, 1) * SubUnits,
                                  SumOfDeltas(text, k, 0) * SubUnits)
    /\ (pc = "decoded" /\ text = ReferenceText)
           => /\ coordinates.error = "none"
              /\ coordinates.value[1] =
                     GeoPoint(3850000 * SubUnits, -12020000 * SubUnits)

\* C2's case: the reference string was decoded, to three points.
DecodeRebuildsPointsWitness ==
    /\ pc = "decoded"
    /\ text = ReferenceText
    /\ WellFormed(text)
    /\ Len(coordinates.value) = 3

\* What decode_polyline takes as "the value continues" (line 33); on the
\* polyline alphabet 63..126 this is bit 0x20 of the group.
Continues(c) == Group(c) >= 32

\* s ends in the middle of a value: its last character continues, or it
\* holds an odd number of complete values (a latitude without a longitude)
EndsMidValue(s) ==
    /\ s # <<>>
    /\ \/ Continues(s[Len(s)])
       \/ Cardinality({ i \in 1..Len(s) : ~Continues(s[i]) }) % 2 = 1

\* C3: decode_polyline on a string that ends in the middle of a value
\* fails with an error (IndexError) and returns no coordinate list.
TruncatedFails ==
    (pc = "decoded" /\ EndsMidValue(text))
        => coordinates.error = "IndexError" /\ coordinates.value = <<>>

\* C3's case: a string over the alphabet made of a complete pair and one
\* more character, which either has the continuation bit set or is a
\* latitude with no longitude after it; decoding it raised.
TruncatedFailsWitness ==
    /\ pc = "decoded"
    /\ InAlphabet(text)
    /\ Len(text) = 3
    /\ ~HasContinuation(text[1])
    /\ ~HasContinuation(text[2])
    /\ coordinates.error = "IndexError"

\* C4 (the claim as stated): decode_polyline fails when the string holds a
\* character outside the alphabet 63..126; it returns no coordinates
\* computed from such a character.
InvalidCharacterFails ==
    (pc = "decoded" /\ ~InAlphabet(text)) => coordinates.error # "none"

\* C5: encode_polyline writes, for each point in order, the latitude delta
\* and then the longitude delta to the previous point's integer (1e-5
\* degree) representation, starting from (0, 0), each zigzag-encoded and
\* written as 5-bit groups least significant first, with bit 0x20 on every
\* group of a value but its last, plus 63; every character is in 63..126.
EncodeWritesDeltas ==
    pc = "encoded"
        => /\ InAlphabet(text)
           /\ Cardinality(ValueEnds(text)) = 2 * Len(points)
           /\ text = <<>> \/ ~HasContinuation(text[Len(text)])
           /\ \A k \in 1..Len(points) :
                  LET prev == IF k = 1 THEN NoPoint ELSE points[k - 1]
                  IN  /\ EncodedValue(text, 2 * k - 1) =
                             ZigZag(round_e5(points[k].latitude)
                                      - round_e5(prev.latitude))
                      /\ EncodedValue(text, 2 * k) =
                             ZigZag(round_e5(points[k].longitude)
                                      - round_e5(prev.longitude))

\* C5's case: two points were encoded, the second south of the first (a
\* negative latitude delta), into values of more than one group.
EncodeWritesDeltasWitness ==
    /\ pc = "encoded"
    /\ Len(points) = 2
    /\ points[2].latitude < points[1].latitude
    /\ Len(text) > 4

---------------------------------------------------------------------------
(* Claims about the path functions, under SpecPath.                        *)

Distance(p, q) ==
    haversine_distance(p.latitude, p.longitude, q.latitude, q.longitude)

\* C6: the table starts with 0, every later entry is the entry before it
\* plus the distance between the two vertices it spans, and (no distance
\* being negative) the table is non-decreasing.
TableIsRunningSum ==
    pc = "tabulated"
        => /\ Len(distances) >= Len(polyline_points)
           /\ distances[1] = 0
           /\ \A i \in 1..(Len(polyline_points) - 1) :
                  distances[i + 1] =
                      distances[i] + Distance(polyline_points[i],
                                              polyline_points[i + 1])
           /\ \A i \in 1..Len(distances) : \A j \in i..Len(distances) :
                  distances[i] <= distances[j]

\* C6's case: the table of a three-vertex polyline with two legs of
\* non-zero length, so that the third entry is a true sum.
TableIsRunningSumWitness ==
    /\ pc = "tabulated"
    /\ Len(polyline_points) = 3
    /\ distances[2] > 0
    /\ distances[3] > distances[2]

\* C7 (the claim as stated): the table has exactly as many entries as the
\* polyline has vertices, the polyline with zero vertices included.
TableLengthIsVertexCount ==
    pc = "tabulated" => Len(distances) = Len(polyline_points)

\* C8 (the claim as stated): on a polyline of zero vertices
\* get_nearest_point_on_polyline signals an error and returns no
\* (distance, index) result.
EmptyPolylineFails ==
    (pc = "projected" /\ polyline_points = <<>>) => nearest.error # "none"

\* C9 (the claim as stated): every result returned for an N-vertex input
\* has its index in [0, N-1].
IndexInRange ==
    (pc = "projected" /\ nearest.error = "none")
        => nearest.best_index \in 0..(Len(polyline_points) - 1)

\* C10: for a non-empty polyline the result is the minimum over all
\* vertices of the distance to the query point, with the smallest index at
\* which that minimum is attained (indices counted from 0).
NearestIsFirstMinimum ==
    (pc = "projected" /\ polyline_points # <<>>)
        => LET n == Len(polyline_points)
               dist(i) == Distance(point, polyline_points[i + 1])
           IN  /\ nearest.error = "none"
               /\ nearest.best_index \in 0..(n - 1)
               /\ nearest.min_dist = dist(nearest.best_index)
               /\ \A i \in 0..(n - 1) : nearest.min_dist <= dist(i)
               /\ \A i \in 0..(n - 1) :
                      dist(i) = nearest.min_dist => nearest.best_index <= i

\* C10's case: the second and the third vertex are at the same distance
\* from the query point, the first is farther, and the second was chosen.
NearestIsFirstMinimumWitness ==
    /\ pc = "projected"
    /\ Len(polyline_points) = 3
    /\ Distance(point, polyline_points[2]) = Distance(point, polyline_points[3])
    /\ Distance(point, polyline_points[1]) > Distance(point, polyline_points[2])
    /\ nearest.best_index = 1

---------------------------------------------------------------------------
(* The sampler's claims, on the route's steps in walking order.            *)

RECURSIVE StepsFrom(_, _)
StepsFrom(legs, k) ==
    IF k > Len(legs) THEN <<>> ELSE legs[k].steps \o StepsFrom(legs, k + 1)

RouteSteps == StepsFrom(route_obj.legs, 1)

\* the duration accumulated over the steps before the k-th
RECURSIVE ElapsedBefore(_, _)
ElapsedBefore(steps, k) ==
    IF k = 1
    THEN 0
    ELSE ElapsedBefore(steps, k - 1) + get_seconds(steps[k - 1].staticDuration)

\* lastSampleOffset when the k-th step is reached, and whether the step
\* then produces a sample
RECURSIVE LastSampleOffsetBefore(_, _)
LastSampleOffsetBefore(steps, k) ==
    IF k = 1
    THEN -SAMPLE_INTERVAL
    ELSE IF /\ ElapsedBefore(steps, k - 1)
                 > LastSampleOffsetBefore(steps, k - 1) + SAMPLE_INTERVAL
            /\ steps[k - 1].endLocation.given
         THEN ElapsedBefore(steps, k - 1)
         ELSE LastSampleOffsetBefore(steps, k - 1)

Eligible(steps, k) ==
    ElapsedBefore(steps, k) > LastSampleOffsetBefore(steps, k) + SAMPLE_INTERVAL

Emits(steps, k) == Eligible(steps, k) /\ steps[k].endLocation.given

EnRouteOf(steps) ==
    LET at == SelectSeq([k \in 1..Len(steps) |-> k],
                        LAMBDA k : Emits(steps, k))
    IN  [i \in 1..Len(at) |->
            Sample(ElapsedBefore(steps, at[i]),
                   steps[at[i]].endLocation.latitude,
                   steps[at[i]].endLocation.longitude, "En Route")]

Labelled(samples, label) == SelectSeq(samples, LAMBDA s : s.label = label)

Returned == pc = "sampled" /\ sampling.error = "none"

\* C11: the sample sequence the sampler produces always has a first entry
\* at offset 0, whatever the first leg's start location is (missing, or at
\* latitude 0, included).
FirstSampleAtZero ==
    Returned =>
        /\ sampling.samples # <<>>
        /\ sampling.samples[1].offset = 0

\* C12: walking the steps in order from lastSampleOffset = -interval, a
\* step produces an en-route sample exactly when the duration accumulated
\* over the preceding steps is strictly greater than lastSampleOffset +
\* interval and the step has an end location; the sample carries that
\* duration as its offset and the step's end location as its point, and
\* lastSampleOffset becomes that offset; otherwise no sample is produced
\* and lastSampleOffset is unchanged; every step's duration is added to the
\* elapsed total.
StepSamples ==
    pc = "sampled" =>
        /\ Labelled(sampling.samples, "En Route") = EnRouteOf(RouteSteps)
        /\ sampling.last_sample_time
               = LastSampleOffsetBefore(RouteSteps, Len(RouteSteps) + 1)
        /\ sampling.current_elapsed
               = ElapsedBefore(RouteSteps, Len(RouteSteps) + 1)

\* a walk of three steps where one step is sampled, one is eligible but
\* has no end location, and one is not eligible
StepSamplesWitness ==
    /\ pc = "sampled"
    /\ Len(RouteSteps) = 3
    /\ \E k \in 1..3 : Emits(RouteSteps, k)
    /\ \E k \in 1..3 : /\ Eligible(RouteSteps, k)
                       /\ ~RouteSteps[k].endLocation.given
    /\ \E k \in 1..3 : /\ ~Eligible(RouteSteps, k)
                       /\ RouteSteps[k].endLocation.given

\* C13: after the walk a sample labelled "Destination", with the route's
\* total duration as offset and the last leg's end location as point, is
\* appended if and only if total > lastSampleOffset + interval/2 and the
\* last leg has an end location; otherwise there is no destination sample.
DestinationRule ==
    Returned =>
        LET legs == route_obj.legs
            end_loc == legs[Len(legs)].endLocation
            total == get_seconds(route_obj.duration)
            samples == sampling.samples
        IN  IF /\ end_loc.given
               /\ 2 * total > 2 * sampling.last_sample_time + SAMPLE_INTERVAL
            THEN /\ samples # <<>>
                 /\ samples[Len(samples)]
                        = Sample(total, end_loc.latitude, end_loc.longitude,
                                 "Destination")
                 /\ Len(Labelled(samples, "Destination")) = 1
            ELSE Labelled(samples, "Destination") = <<>>

\* the destination sample follows an en-route sample by more than half an
\* interval and less than a whole one
DestinationRuleWitness ==
    /\ Returned
    /\ sampling.last_sample_time > 0
    /\ get_seconds(route_obj.duration)
           < sampling.last_sample_time + SAMPLE_INTERVAL
    /\ Labelled(sampling.samples, "Destination") # <<>>

\* C14: two consecutive samples, neither of them the Start nor the
\* Destination sample, have offsets that differ by at least the interval.
EnRouteSpacing ==
    pc = "sampled" =>
        LET samples == sampling.samples
        IN  \A i \in 1..(Len(samples) - 1) :
                (\/ /\ samples[i].label = "En Route"
                    /\ samples[i + 1].label = "En Route"
                 \/ /\ 1 < i
                    /\ i + 1 < Len(samples))
                => samples[i + 1].offset - samples[i].offset >= SAMPLE_INTERVAL

\* two en-route samples in a row, after a Start sample
EnRouteSpacingWitness ==
    /\ pc = "sampled"
    /\ Len(sampling.samples) >= 3
    /\ sampling.samples[1].label = "Start"
    /\ sampling.samples[2].label = "En Route"
    /\ sampling.samples[3].label = "En Route"

\* C15: a route whose legs hold no step, with a start and an end location,
\* yields exactly one Start sample at offset 0, no en-route sample, and a
\* destination sample if its total duration is greater than interval/2.
ZeroStepRoute ==
    (/\ Returned
     /\ RouteSteps = <<>>
     /\ route_obj.legs[1].startLocation.given
     /\ route_obj.legs[Len(route_obj.legs)].endLocation.given)
    => LET samples == sampling.samples
       IN  /\ samples # <<>>
           /\ samples[1].label = "Start"
           /\ samples[1].offset = 0
           /\ Len(Labelled(samples, "Start")) = 1
           /\ Labelled(samples, "En Route") = <<>>
           /\ 2 * get_seconds(route_obj.duration) > SAMPLE_INTERVAL
              => samples[Len(samples)].label = "Destination"

\* C16: the samples are ordered by offset: every offset is >= 0 and >= the
\* offset of the sample before it, the Destination sample (whose offset is
\* the route's total duration) included.
OffsetsOrdered ==
    pc = "sampled" =>
        LET samples == sampling.samples
        IN  /\ \A i \in 1..Len(samples) : samples[i].offset >= 0
            /\ \A i \in 1..(Len(samples) - 1) :
                   samples[i].offset <= samples[i + 1].offset

\* a Start, an en-route and a Destination sample, the route's duration
\* differing from the sum of its steps' durations
OffsetsOrderedWitness ==
    /\ Returned
    /\ Labelled(sampling.samples, "Start") # <<>>
    /\ Labelled(sampling.samples, "En Route") # <<>>
    /\ Labelled(sampling.samples, "Destination") # <<>>
    /\ get_seconds(route_obj.duration) # sampling.current_elapsed

---------------------------------------------------------------------------
(* The matcher's claims.  A timestamp is usable when it is an ISO time     *)
(* with an offset; its instant is its wall-clock time less the offset.     *)

Hourly == IF forecast_data.has_hours THEN forecast_data.forecastHours ELSE <<>>

Usable(entry) == entry.startTime.kind = "iso" /\ entry.startTime.suffix # ""

Instant(entry) ==
    entry.startTime.wall
        - (IF entry.startTime.suffix = "+01:00" THEN 3600 ELSE 0)

Difference(entry) == Abs(Instant(entry) - target_time)

UsableAt == { k \in 1..Len(Hourly) : Usable(Hourly[k]) }

MinimalAt ==
    { k \in UsableAt : \A j \in UsableAt : Difference(Hourly[k]) <= Difference(Hourly[j]) }

Matched == pc = "matched" /\ match.error = "none"

StartTimesOf(hourly) == [k \in 1..Len(hourly) |-> hourly[k].startTime]

OnUsableOnly ==
    find_forecast_for_time(
        [has_hours |-> forecast_data.has_hours,
         forecastHours |-> SelectSeq(Hourly, Usable)],
        target_time)

\* C19: an entry whose timestamp is missing or cannot be used is skipped
\* without aborting the scan: on a list mixing such entries with usable
\* ones the matcher returns the entry it returns on the list without them,
\* and never raises because of one entry.
SkipsUnusable ==
    pc = "matched" =>
        /\ match.error = "none"
        /\ match = OnUsableOnly

\* C20: the matcher returns None exactly when the forecast list is empty
\* or missing or holds no entry with a usable timestamp; in every other
\* case it returns one of the list's entries, unmodified.
AbsentOnlyWithoutUsable ==
    pc = "matched" =>
        /\ match.error = "none"
        /\ match.closest = <<>> <=> UsableAt = {}
        /\ match.closest # <<>>
           => \E k \in 1..Len(Hourly) : match.closest[1] = Hourly[k]

---------------------------------------------------------------------------
(* The chart's claims.                                                     *)

Charted == pc = "charted" /\ chart_data # <<>>

MarkersIn(column) ==
    { r \in 1..Len(chart.grid) : chart.grid[r][column] = "*" }

\* C21: generate_ascii_chart has no failure mode: for every non-empty
\* series and every height >= 1 (height 1 and a constant series included)
\* it returns exactly height labelled rows followed by one axis row whose
\* dash run has the series' length; for an empty series it returns "".
ChartNeverFails ==
    pc = "charted" =>
        /\ chart.error = "none"
        /\ IF chart_data = <<>>
           THEN chart.lines = <<>>
           ELSE /\ Len(chart.lines) = chart_height + 1
                /\ \A y \in 1..chart_height : chart.lines[y].kind = "row"
                /\ chart.lines[chart_height + 1]
                       = [kind |-> "axis", dashes |-> Len(chart_data)]

\* C22 as stated: every value is mapped to a row in [0, height-1], the
\* minimum to row 0 and the maximum to row height-1, and the grid holds
\* exactly one marker in each column, no grid access being out of bounds.
MaximumOnTopRow ==
    Charted =>
        /\ chart.error # "IndexError"
        /\ \A x \in 1..Len(chart_data) :
               /\ chart.normalized[x] \in 0..(chart_height - 1)
               /\ chart_data[x] = SeqMin(chart_data) => chart.normalized[x] = 0
               /\ chart_data[x] = SeqMax(chart_data)
                  => chart.normalized[x] = chart_height - 1
               /\ Cardinality(MarkersIn(x)) = 1

\* C22, amended: every value is mapped to a row in [0, height-1], the
\* minimum to row 0 and, unless the series is constant, the maximum to row
\* height-1 (a constant series is mapped to row 0 throughout); the grid
\* holds exactly one marker in each column, at the column's row counted
\* from the bottom, and no grid access is out of bounds.
MarkersInRows ==
    Charted =>
        /\ chart.error # "IndexError"
        /\ Len(chart.grid) = chart_height
        /\ \A x \in 1..Len(chart_data) :
               /\ chart.normalized[x] \in 0..(chart_height - 1)
               /\ chart_data[x] = SeqMin(chart_data) => chart.normalized[x] = 0
               /\ (chart_data[x] = SeqMax(chart_data)
                   /\ SeqMax(chart_data) # SeqMin(chart_data))
                  => chart.normalized[x] = chart_height - 1
               /\ MarkersIn(x) = { chart_height - chart.normalized[x] }

\* a series with its minimum, its maximum and a value mapped in between
MarkersInRowsWitness ==
    /\ Charted
    /\ chart.error = "none"
    /\ \E x \in 1..Len(chart_data) : chart.normalized[x] = 0
    /\ \E x \in 1..Len(chart_data) :
           /\ 0 < chart.normalized[x]
           /\ chart.normalized[x] < chart_height - 1
    /\ \E x \in 1..Len(chart_data) : chart.normalized[x] = chart_height - 1

---------------------------------------------------------------------------
(* The interleaving's claim.                                               *)

\* what the operation returns when it runs alone
RunAlone(op, args) ==
    CASE op = "decode_polyline" -> decode_polyline(args)
      [] op = "encode_polyline" -> encode_polyline(args)
      [] op = "get_nearest_point_on_polyline" ->
             get_nearest_point_on_polyline(args.point_lat, args.point_lng,
                                           args.polyline_points)
      [] op = "calculate_cumulative_distances" ->
             calculate_cumulative_distances(args)
      [] op = "generate_ascii_chart" ->
             generate_ascii_chart(args.data, args.height)
      [] op = "find_forecast_for_time" ->
             find_forecast_for_time(args.forecast_data, args.target_time)

SameAsAlone ==
    pc = "interleave" =>
        \A t \in TaskIds :
            tasks[t].done => tasks[t].result = RunAlone(tasks[t].op, task_args[t])

\* C23: the core operations share no mutable state: when two invocations
\* are interleaved iteration by iteration in any order, each returns what
\* it returns when run alone, and no iteration modifies an invocation's
\* caller-supplied arguments (or an object of module level).
NoSharedState ==
    /\ []SameAsAlone
    /\ [][task_args' = task_args /\ module_state' = module_state]_vars

\* one invocation has returned while the other is in the middle of its
\* loop, both being of the same operation
NoSharedStateWitness ==
    /\ pc = "interleave"
    /\ tasks[1].op = "calculate_cumulative_distances"
    /\ tasks[2].op = "calculate_cumulative_distances"
    /\ tasks[1].done
    /\ ~tasks[2].done
    /\ tasks[2].locals.i = 2

---------------------------------------------------------------------------
(* format_duration's claim.                                                *)

\* the text is "<n>s": one digit or more, then "s"
IsSecondsText(chars) ==
    /\ Len(chars) >= 2
    /\ chars[Len(chars)] = "s"
    /\ \A k \in 1..(Len(chars) - 1) : IsDigit(chars[k])

SecondsOf(chars) == DigitsValue(SubSeq(chars, 1, Len(chars) - 1), 0)

\* the text, its "s" removed, is an integer to Python's int()
IsInteger(chars) ==
    LET rest == without_s(chars)
        digits == IF rest # <<>> /\ Head(rest) \in {"-", "+"}
                  THEN Tail(rest) ELSE rest
    IN  /\ digits # <<>>
        /\ \A k \in 1..Len(digits) : IsDigit(digits[k])

\* C24: format_duration of "<n>s", n >= 0, is "<h>h <m>m" when
\* h = n // 3600 is greater than 0 and "<m>m" otherwise, with
\* m = (n mod 3600) // 60 ("3600s" gives "1h 0m", "60s" gives "1m"); of a
\* string that is no integer once its 's' are removed, it is the string.
FormatsDuration ==
    pc = "formatted" =>
        /\ IsSecondsText(seconds_str) =>
               LET n == SecondsOf(seconds_str)
                   h == n \div 3600
                   m == (n % 3600) \div 60
               IN  formatted = IF h > 0
                               THEN Decimal(h) \o <<"h", " ">> \o Decimal(m) \o <<"m">>
                               ELSE Decimal(m) \o <<"m">>
        /\ seconds_str = <<"3", "6", "0", "0", "s">>
               => formatted = <<"1", "h", " ", "0", "m">>
        /\ seconds_str = <<"6", "0", "s">> => formatted = <<"1", "m">>
        /\ ~IsInteger(seconds_str) => formatted = seconds_str

\* "3661s" gives "1h 1m"
FormatsDurationWitness ==
    /\ pc = "formatted"
    /\ seconds_str = <<"3", "6", "6", "1", "s">>
    /\ formatted = <<"1", "h", " ", "1", "m">>

---------------------------------------------------------------------------
(* The garage's claim.                                                     *)

Shows(out, name) ==
    /\ out # <<>>
    /\ "table" \in DOMAIN out[1]
    /\ \E row \in out[1].table : row.name = name

\* C25: garage add NAME saves a garage equal to the loaded one with NAME
\* mapped to the configuration of the command line (replacing an entry of
\* that name) and every other entry unchanged; a garage list that follows
\* shows NAME.
GarageAddSaves ==
    /\ pc = "garage list" =>
           /\ garage_loaded # <<>>
           /\ garage_saved # <<>>
           /\ DOMAIN garage_saved[1] = DOMAIN garage_loaded[1] \cup {vehicle.name}
           /\ garage_saved[1][vehicle.name] = vehicle.config
           /\ \A k \in DOMAIN garage_loaded[1] \ {vehicle.name} :
                  garage_saved[1][k] = garage_loaded[1][k]
           /\ load_garage(garage_file) = garage_saved[1]
    /\ pc = "listed" => Shows(console_out, vehicle.name)

---------------------------------------------------------------------------
(* The sampler's coverage.                                                 *)

\* the samples end with the Destination sample at the route's duration, or
\* with an en-route sample no more than half an interval before it
CoveredToTheEnd ==
    LET samples == sampling.samples
        total == get_seconds(route_obj.duration)
        last == samples[Len(samples)]
    IN  /\ samples # <<>>
        /\ \/ last.label = "Destination" /\ last.offset = total
           \/ /\ last.label = "En Route"
              /\ 2 * total <= 2 * last.offset + SAMPLE_INTERVAL

\* C26 as stated: whether the destination sample is suppressed or emitted,
\* on completion the last sample is the Destination sample with the total
\* duration as offset, or the last en-route sample's offset e satisfies
\* total <= e + interval/2.
CoversDuration == Returned => CoveredToTheEnd

\* C26, amended: the same, for a route whose last leg has an end location.
CoversDurationToEndLocation ==
    (Returned /\ route_obj.legs[Len(route_obj.legs)].endLocation.given)
    => CoveredToTheEnd

\* the destination sample is suppressed after an en-route sample
CoversDurationWitness ==
    /\ Returned
    /\ route_obj.legs[Len(route_obj.legs)].endLocation.given
    /\ Labelled(sampling.samples, "Destination") = <<>>
    /\ Labelled(sampling.samples, "En Route") # <<>>

---------------------------------------------------------------------------
(* The index of the trip mile.                                             *)

\* the 0-based positions of the route that the stride keeps
StridePositions == { i \in 0..(Len(polyline_points) - 1) : i % STEP = 0 }

EnrichedWithIndex == pc = "enriched" /\ enriched.read

\* C27: for a non-empty decoded route and any place that gets a trip mile,
\* the index read from the table of cumulative distances lies in
\* 0..len(table) - 1, the clamp leaves sub_index * 5 as it is, and the index
\* is the position in the full route of the vertex the scan over every
\* fifth vertex selected: the stride keeps that position, and exactly
\* sub_index kept positions come before it.
TripMileIndex ==
    (EnrichedWithIndex /\ polyline_points # <<>>) =>
        /\ enriched.error = "none"
        /\ enriched.real_index \in 0..(Len(distances) - 1)
        /\ enriched.real_index = enriched.mapped
        /\ enriched.mapped = enriched.sub_index * STEP
        /\ enriched.real_index \in StridePositions
        /\ Cardinality({ i \in StridePositions : i < enriched.real_index })
               = enriched.sub_index
        /\ enriched.sub_index =
               get_nearest_point_on_polyline(
                   place.latitude, place.longitude,
                   every_step(polyline_points)).best_index
        /\ enriched.trip_mi = distances[enriched.real_index + 1]

\* a place whose nearest kept vertex is the second one, the last vertex of
\* a route of STEP + 1 vertices: the largest index the table has
TripMileIndexWitness ==
    /\ EnrichedWithIndex
    /\ enriched.sub_index = 1
    /\ enriched.real_index = Len(distances) - 1

---------------------------------------------------------------------------
(* The pages of search_along_route.                                        *)

Answered(k) == page_requests[k].answer.error = "none"
CarriedToken(k) == Answered(k) /\ has_token(page_requests[k].answer.nextPageToken)

\* the places of the pages 1..k that were fetched, in page order
RECURSIVE PlacesOfPages(_)
PlacesOfPages(k) ==
    IF k = 0
    THEN <<>>
    ELSE PlacesOfPages(k - 1)
             \o (IF Answered(k) /\ page_requests[k].answer.has_places
                 THEN page_requests[k].answer.places
                 ELSE <<>>)

PagesInOrder ==
    /\ Len(page_requests) <= 3
    /\ page_requests # <<>> => page_requests[1].payload.pageToken = PyNone
    /\ \A k \in 2..Len(page_requests) :
           /\ CarriedToken(k - 1)
           /\ page_requests[k].payload.pageToken
                  = page_requests[k - 1].answer.nextPageToken
    /\ pc = "found" =>
           /\ page_requests # <<>>
           /\ \/ Len(page_requests) = 3
              \/ ~CarriedToken(Len(page_requests))
           /\ found = [error |-> "none",
                       value |-> PlacesOfPages(Len(page_requests))]

\* C28: search_along_route ends after at most 3 page requests; the first
\* request carries no token, a further request is sent only after an
\* answer that carried a nextPageToken and sends that token; the function
\* stops at the first answer without a token or the first request error,
\* and returns the places of all the fetched pages in page order, those
\* gathered before an error included.
SearchEnds ==
    /\ []PagesInOrder
    /\ <>(pc = "found")

\* two pages fetched, then an error on the third request: the places of
\* both pages are returned
SearchEndsWitness ==
    /\ pc = "found"
    /\ Len(page_requests) = 3
    /\ ~Answered(3)
    /\ Len(found.value) >= 2
    /\ page_requests[1].answer.places # <<>>
    /\ page_requests[2].answer.places # <<>>

---------------------------------------------------------------------------
(* The sampler once more: the route without en-route sample.               *)

\* C29: the Start sample does not advance lastSampleOffset: a route whose
\* walk emits no en-route sample (one without steps, for example) and
\* whose last leg has an end location gets the Destination sample for
\* every total duration >= 0, those not greater than interval/2 included,
\* so that it always yields both a Start and a Destination sample.
StartAndDestination ==
    (/\ Returned
     /\ Labelled(sampling.samples, "En Route") = <<>>
     /\ route_obj.legs[Len(route_obj.legs)].endLocation.given)
    => /\ sampling.last_sample_time = -SAMPLE_INTERVAL
       /\ Len(Labelled(sampling.samples, "Destination")) = 1
       /\ Len(Labelled(sampling.samples, "Start")) = 1

=============================================================================
